---- MODULE Spec2Model ----
(***************************************************************************)
(* Model of the truthlens backend: the article store with its version      *)
(* history (articles router, versions router, DatabaseStorage) and the     *)
(* engagement recorder with its daily aggregate (DatabaseStorage           *)
(* record* methods).                                                       *)
(*                                                                         *)
(* Every route handler is an async function: each `await storage.x()` is   *)
(* one database statement and the handlers of different requests           *)
(* interleave between statements.  A request slot p of Procs runs one      *)
(* handler at a time; req[p] holds the handler's position (pc) and its     *)
(* local constants.  One action = one database statement together with     *)
(* the synchronous code that follows it up to the next await.              *)
(*                                                                         *)
(* Requests modelled are those of an authenticated admin that always       *)
(* supplies a fresh unique slug, so the slug column is left out.           *)
(***************************************************************************)
EXTENDS Integers, Sequences, FiniteSets, TLC

VARIABLES
    articles,           \* table articles           (schema.ts 33-51)
    references,         \* table references         (schema.ts 54-66)
    articleVersions,    \* table article_versions   (schema.ts 69-82)
    articleViews,       \* table article_views      (schema.ts 85-98)
    articleBounces,     \* table article_bounces    (schema.ts 101-115)
    socialShares,       \* table social_shares      (schema.ts 118-129)
    dailyArticleStats,  \* table daily_article_stats(schema.ts 132-146)
    serial,             \* next value of each table's serial id column
    clock,              \* the server's calendar day (new Date())
    req,                \* per request slot: the running handler and its locals
    nreq,               \* number of requests accepted so far
    topics,             \* table topics             (schema.ts 23-30)
    session,            \* req.user of the next incoming request
    requests,           \* RateLimiter.requests: key -> {count, resetTime}
    now,                \* Date.now() in milliseconds
    outcomes,           \* every answer the limiter's middleware has given
    users,              \* table users: the usernames   (schema.ts 8-20)
    seed                \* seedDatabase(): its position and locals

vars == <<articles, references, articleVersions, articleViews, articleBounces,
          socialShares, dailyArticleStats, serial, clock, req, nreq,
          topics, session, requests, now, outcomes, users, seed>>

contentVars == <<articles, references, articleVersions>>
engagementVars == <<articleViews, articleBounces, socialShares, dailyArticleStats>>
limiterVars == <<requests, now, outcomes>>
seedVars == <<users, seed>>
otherVars == <<topics, session, limiterVars, seedVars>>

----------------------------------------------------------------------------
(* Bounds *)

MaxRequests == 3        \* requests accepted in a run of the content store
MaxEvents == 3          \* engagement events accepted in a concurrent run
MaxSequential == 4      \* engagement events accepted in a sequential run
MaxDay == 2             \* last calendar day the clock reaches
MaxAnalytics == 4       \* requests of the statistics client
MaxQueries == 2         \* requests of the listing client
MaxRecordings == 3      \* recordings on the article-day that has its row
MaxStamp == 2           \* latest updatedAt of a listed article

Procs == {"p1", "p2"}

----------------------------------------------------------------------------
(* Values *)

Null == "null"              \* SQL NULL / JS null
Absent == "undefined"       \* a key the request body does not carry
NoSample == -1              \* timeOnPage not supplied (undefined / NULL)
NoTopic == 0                \* topic_id IS NULL (serial ids start at 1)
Unset == -1                 \* a numeric key the request body does not carry
AdminId == 1                \* users.id of the admin, req.user.id
NoDate == 0                 \* start_date / end_date not supplied (undefined)

\* JS truthiness of an optional string: undefined, null and "" are falsy
Truthy(s) == s \notin {Absent, Null, ""}

\* JS truthiness of an optional number: undefined, null and 0 are falsy
TruthyNum(n) == n \notin {NoSample, 0}

Max(S) == IF S = {} THEN 0 ELSE CHOOSE x \in S : \A y \in S : y <= x

NoArticle == [id |-> 0, title |-> "", slug |-> "", description |-> Null, content |-> "",
              topicId |-> NoTopic, authorId |-> 0, status |-> "", updatedAt |-> 0]
NoVersion == [id |-> 0, articleId |-> 0, title |-> "", description |-> Null,
              content |-> "", versionNumber |-> 0]
NoStat == [id |-> 0, articleId |-> 0, date |-> 0, views |-> 0, shares |-> 0,
           bounces |-> 0, averageTimeOnPage |-> 0]
NoBody == [title |-> Absent, slug |-> Absent, description |-> Absent,
           content |-> Absent, topicId |-> Unset, status |-> Absent,
           hasReferences |-> FALSE, references |-> <<>>]

NoTopicRow == [id |-> 0, name |-> "", slug |-> ""]
NoTopicData == [name |-> Absent, slug |-> Absent]

\* getArticles without options: limit = 10, offset = 0
NoOptions == [topicId |-> Unset, status |-> Absent, authorId |-> Unset,
              search |-> Absent, limit |-> 10, offset |-> 0]

\* RateLimiter.requests = new Map(): no key has been seen
NoRequests == [k \in {} |-> [count |-> 0, resetTime |-> 0]]

\* the limiter as constructed: empty map, nothing answered
LimiterIdle ==
    /\ requests = NoRequests
    /\ now = 0
    /\ outcomes = {}

\* the locals of seedDatabase(); run counts the process starts
NoSeed == [pc |-> "done", run |-> 0, i |-> 0, j |-> 0, k |-> 0,
           adminId |-> 0, newArticle |-> NoArticle]

\* a database whose admin user exists, with no seeding in progress
Seeded ==
    /\ users = {"admin"}
    /\ seed = NoSeed

\* The locals of a handler.  created, changed, interfered and conflict are
\* history fields: the version row this request inserted, whether its
\* updateArticle changed the stored title or content, whether another request
\* wrote the article after this restore did, and whether its write violated a
\* unique constraint.
IdleReq == [op |-> "none", pc |-> "idle", articleId |-> 0, versionId |-> 0,
            body |-> NoBody, article |-> NoArticle, version |-> NoVersion,
            latestVersion |-> 0, status |-> 0, message |-> "",
            timeOnPage |-> NoSample, today |-> 0, existingStat |-> NoStat,
            created |-> NoVersion, changed |-> FALSE, interfered |-> FALSE,
            topicId |-> 0, topicData |-> NoTopicData, conflict |-> FALSE,
            startDate |-> NoDate, endDate |-> NoDate, result |-> <<>>,
            options |-> NoOptions, total |-> 0]

Free(p) == req[p].pc \in {"idle", "done"}

Respond(r, st, msg) == [r EXCEPT !.pc = "done", !.status = st, !.message = msg]

\* req after slot p moves to r while it writes the row of article id: a
\* restore in another slot that has already written that row has been
\* interfered with (history variable req[q].interfered)
WriteBy(p, id, r) ==
    [q \in Procs |->
        IF q = p THEN r
        ELSE IF /\ req[q].op = "restore" /\ req[q].articleId = id
                /\ req[q].pc \in {"getVersions", "createVersion", "done"}
             THEN [req[q] EXCEPT !.interfered = TRUE]
             ELSE req[q]]

----------------------------------------------------------------------------
(* DatabaseStorage: content store *)

\* storage.getArticle: the row with that id, or undefined
getArticle(id) ==
    IF \E a \in articles : a.id = id
    THEN CHOOSE a \in articles : a.id = id
    ELSE NoArticle

\* storage.getArticleVersion: the version row with that id, or undefined
getArticleVersion(id) ==
    IF \E v \in articleVersions : v.id = id
    THEN CHOOSE v \in articleVersions : v.id = id
    ELSE NoVersion

\* storage.getArticleVersions + `versions[0]?.versionNumber || 0`
latestVersionNumber(articleId) ==
    Max({v.versionNumber : v \in {w \in articleVersions : w.articleId = articleId}})

\* storage.updateArticle: UPDATE articles SET <supplied keys>, updatedAt = now
\* WHERE id = id
updateArticle(id, data) ==
    {IF a.id # id THEN a
     ELSE [a EXCEPT !.title = IF data.title = Absent THEN @ ELSE data.title,
                    !.slug = IF data.slug = Absent THEN @ ELSE data.slug,
                    !.description = IF data.description = Absent THEN @ ELSE data.description,
                    !.content = IF data.content = Absent THEN @ ELSE data.content,
                    !.topicId = IF data.topicId = Unset THEN @ ELSE data.topicId,
                    !.status = IF data.status = Absent THEN @ ELSE data.status,
                    !.updatedAt = clock]
     : a \in articles}

\* slugify(s, {lower: true, strict: true}): lower case, blanks become "-",
\* every other character outside [a-z0-9] is dropped
UpperCase == "ABCDEFGHIJKLMNOPQRSTUVWXYZ"
LowerCase == "abcdefghijklmnopqrstuvwxyz"
Digits == "0123456789"

CharIn(c, alphabet) == \E i \in 1..Len(alphabet) : SubSeq(alphabet, i, i) = c

LowerChar(c) ==
    IF CharIn(c, UpperCase)
    THEN LET i == CHOOSE j \in 1..Len(UpperCase) : SubSeq(UpperCase, j, j) = c
         IN SubSeq(LowerCase, i, i)
    ELSE c

RECURSIVE toLowerCase(_)
toLowerCase(s) ==
    IF s = "" THEN ""
    ELSE LowerChar(SubSeq(s, 1, 1)) \o toLowerCase(SubSeq(s, 2, Len(s)))

RECURSIVE slugify(_)
slugify(s) ==
    IF s = "" THEN ""
    ELSE LET c == LowerChar(SubSeq(s, 1, 1))
             rest == slugify(SubSeq(s, 2, Len(s)))
         IN IF CharIn(c, LowerCase) \/ CharIn(c, Digits) THEN c \o rest
            ELSE IF c = " " THEN "-" \o rest
            ELSE rest

\* the unique constraint on articles.slug, for the row with id `id`
SlugFree(slug, id) == \A a \in articles : a.id # id => a.slug # slug

\* the foreign key topic_id REFERENCES topics(id)
TopicExists(topicId) == topicId = NoTopic \/ \E t \in topics : t.id = topicId

\* faulty variant of ArticleExists: article_id without its foreign key
ArticleExistsUnchecked(id) == TRUE

\* the foreign key article_id REFERENCES articles(id)
ArticleExists(id) == \E a \in articles : a.id = id

\* the row storage.createArticleVersion inserts
NewVersionRow(articleId, title, description, content, versionNumber) ==
    [id |-> serial.versions, articleId |-> articleId, title |-> title,
     description |-> description, content |-> content,
     versionNumber |-> versionNumber]

\* the references loop of POST / and PUT /:id: every entry is parsed and then
\* inserted; the first malformed entry throws ZodError and ends the loop
RECURSIVE GoodPrefix(_)
\* faulty variant of createArticleVersion: the new row replaces the article's
\* earlier versions
createArticleVersionReplacing(row) ==
    {v \in articleVersions : v.articleId # row.articleId} \cup {row}

\* storage.createArticleVersion: INSERT INTO article_versions
createArticleVersion(row) == articleVersions \cup {row}

GoodPrefix(refs) ==
    IF refs = <<>> \/ Head(refs) = "bad" THEN 0
    ELSE 1 + GoodPrefix(Tail(refs))

HasBad(refs) == \E i \in 1..Len(refs) : refs[i] = "bad"

NewReferences(articleId, refs) ==
    {[id |-> serial.references + i - 1, articleId |-> articleId] : i \in 1..GoodPrefix(refs)}

----------------------------------------------------------------------------
(* POST /api/articles : create an article *)

\* the row POST / hands to storage.createArticle: the slug defaults to the
\* slugified title, the author to the caller, the status to 'draft'
NewArticleRow(body) ==
    [id |-> serial.articles, title |-> body.title,
     slug |-> IF Truthy(body.slug) THEN body.slug ELSE slugify(body.title),
     description |-> IF body.description = Absent THEN Null ELSE body.description,
     content |-> body.content,
     topicId |-> IF body.topicId = Unset THEN NoTopic ELSE body.topicId,
     authorId |-> AdminId,
     status |-> IF body.status = Absent THEN "draft" ELSE body.status,
     updatedAt |-> clock]

\* parse the body, storage.createArticle; a violated constraint throws and the
\* catch block answers 500
CreateArticle(p, body) ==
    /\ Free(p) /\ nreq < MaxRequests
    /\ nreq' = nreq + 1
    /\ serial' = [serial EXCEPT !.articles = @ + 1]
    /\ LET row == NewArticleRow(body)
           r == [IdleReq EXCEPT !.op = "create", !.body = body]
       IN IF SlugFree(row.slug, row.id) /\ TopicExists(row.topicId)
          THEN /\ articles' = articles \cup {row}
               /\ req' = [req EXCEPT ![p] = [r EXCEPT !.pc = "references",
                                                       !.articleId = row.id, !.article = row]]
          ELSE /\ articles' = articles
               /\ req' = [req EXCEPT ![p] =
                            Respond([r EXCEPT !.conflict = ~SlugFree(row.slug, row.id)],
                                    500, "Failed to create article")]
    /\ UNCHANGED <<otherVars, references, articleVersions, engagementVars, clock>>

\* the references loop; a malformed entry answers 400 with the article kept
CreateReferences(p) ==
    /\ req[p].op = "create" /\ req[p].pc = "references"
    /\ LET refs == req[p].body.references
       IN IF GoodPrefix(refs) > 0 /\ ~ArticleExists(req[p].articleId)
          THEN /\ req' = [req EXCEPT ![p] = Respond(@, 500, "Failed to create article")]
               /\ serial' = [serial EXCEPT !.references = @ + 1]
               /\ UNCHANGED references
          ELSE /\ references' = references \cup NewReferences(req[p].articleId, refs)
               /\ serial' = [serial EXCEPT !.references = @ + GoodPrefix(refs)]
               /\ req' = [req EXCEPT ![p] =
                     IF HasBad(refs) THEN Respond(@, 400, "Invalid article data")
                     ELSE [@ EXCEPT !.pc = "createVersion"]]
    /\ UNCHANGED <<otherVars, articles, articleVersions, engagementVars, clock, nreq>>

\* storage.createArticleVersion({... versionNumber: 1})
CreateInitialVersion(p) ==
    /\ req[p].op = "create" /\ req[p].pc = "createVersion"
    /\ serial' = [serial EXCEPT !.versions = @ + 1]
    /\ LET a == req[p].article
           row == NewVersionRow(a.id, a.title, a.description, a.content, 1)
       IN IF ArticleExists(a.id)
          THEN /\ articleVersions' = createArticleVersion(row)
               /\ req' = [req EXCEPT ![p] = Respond([@ EXCEPT !.created = row], 201, "")]
          ELSE /\ req' = [req EXCEPT ![p] = Respond(@, 500, "Failed to create article")]
               /\ UNCHANGED articleVersions
    /\ UNCHANGED <<otherVars, articles, references, engagementVars, clock, nreq>>


----------------------------------------------------------------------------
(* PUT /api/articles/:id : update an article *)

\* PUT /:id: updateData after `if (updateData.title && !updateData.slug)`
updateData(body) ==
    IF Truthy(body.title) /\ ~Truthy(body.slug)
    THEN [body EXCEPT !.slug = slugify(body.title)]
    ELSE body

\* storage.getArticle, 404 when missing, then the body is parsed
UpdateStart(p, id, body) ==
    /\ Free(p) /\ nreq < MaxRequests
    /\ nreq' = nreq + 1
    /\ LET a == getArticle(id)
           r == [IdleReq EXCEPT !.op = "update", !.articleId = id,
                                !.body = updateData(body), !.article = a]
       IN req' = [req EXCEPT ![p] =
              IF a = NoArticle THEN Respond(r, 404, "Article not found")
              ELSE [r EXCEPT !.pc = "updateArticle"]]
    /\ UNCHANGED <<otherVars, contentVars, engagementVars, serial, clock>>

\* storage.updateArticle(id, updateData); a violated constraint throws and the
\* catch block answers 500
UpdateArticleStep(p) ==
    /\ req[p].op = "update" /\ req[p].pc = "updateArticle"
    /\ LET id == req[p].articleId
           data == req[p].body
           old == getArticle(id)
           new == CHOOSE a \in updateArticle(id, data) \cup {NoArticle} : a.id = old.id
       IN IF old # NoArticle /\ ~(SlugFree(new.slug, id) /\ TopicExists(new.topicId))
          THEN /\ articles' = articles
               /\ req' = [req EXCEPT ![p] =
                            Respond([@ EXCEPT !.conflict = ~SlugFree(new.slug, id)],
                                    500, "Failed to update article")]
          ELSE /\ articles' = updateArticle(id, data)
               /\ req' = WriteBy(p, id,
                            [req[p] EXCEPT !.pc = "getVersions",
                                           !.changed = (old.title # new.title
                                                        \/ old.content # new.content)])
    /\ UNCHANGED <<otherVars, references, articleVersions, engagementVars, serial, clock, nreq>>

\* storage.getArticleVersions(id); versions[0]?.versionNumber || 0;
\* if (updateData.content || updateData.title)
UpdateGetVersions(p) ==
    /\ req[p].op = "update" /\ req[p].pc = "getVersions"
    /\ req' = [req EXCEPT ![p] =
          [@ EXCEPT !.latestVersion = latestVersionNumber(req[p].articleId),
                    !.pc = IF Truthy(req[p].body.content) \/ Truthy(req[p].body.title)
                           THEN "createVersion" ELSE "references"]]
    /\ UNCHANGED <<otherVars, contentVars, engagementVars, serial, clock, nreq>>

\* the version row PUT /:id builds from updateData and the article it read first
UpdateVersionRow(r) ==
    NewVersionRow(r.articleId,
        IF Truthy(r.body.title) THEN r.body.title ELSE r.article.title,
        IF Truthy(r.body.description) THEN r.body.description ELSE r.article.description,
        IF Truthy(r.body.content) THEN r.body.content ELSE r.article.content,
        r.latestVersion + 1)

\* storage.createArticleVersion({... versionNumber: latestVersion + 1})
UpdateCreateVersion(p) ==
    /\ req[p].op = "update" /\ req[p].pc = "createVersion"
    /\ serial' = [serial EXCEPT !.versions = @ + 1]
    /\ LET row == UpdateVersionRow(req[p])
       IN IF ArticleExists(req[p].articleId)
          THEN /\ articleVersions' = createArticleVersion(row)
               /\ req' = [req EXCEPT ![p] = [@ EXCEPT !.created = row, !.pc = "references"]]
          ELSE /\ req' = [req EXCEPT ![p] = Respond(@, 500, "Failed to update article")]
               /\ UNCHANGED articleVersions
    /\ UNCHANGED <<otherVars, articles, references, engagementVars, clock, nreq>>

\* if (req.body.references): delete the article's references, insert the new
\* ones; then respond with the updated article
UpdateReferences(p) ==
    /\ req[p].op = "update" /\ req[p].pc = "references"
    /\ LET id == req[p].articleId
           refs == req[p].body.references
           kept == {x \in references : x.articleId # id}
       IN IF ~req[p].body.hasReferences
          THEN /\ req' = [req EXCEPT ![p] = Respond(@, 200, "")]
               /\ UNCHANGED <<otherVars, references, serial>>
          ELSE IF GoodPrefix(refs) > 0 /\ ~ArticleExists(id)
          THEN /\ references' = kept
               /\ serial' = [serial EXCEPT !.references = @ + 1]
               /\ req' = [req EXCEPT ![p] = Respond(@, 500, "Failed to update article")]
          ELSE /\ references' = kept \cup NewReferences(id, refs)
               /\ serial' = [serial EXCEPT !.references = @ + GoodPrefix(refs)]
               /\ req' = [req EXCEPT ![p] =
                     IF HasBad(refs) THEN Respond(@, 400, "Invalid article data")
                     ELSE Respond(@, 200, "")]
    /\ UNCHANGED <<otherVars, articles, articleVersions, engagementVars, clock, nreq>>

----------------------------------------------------------------------------
(* DELETE /api/articles/:id *)

DeleteStart(p, id) ==
    /\ Free(p) /\ nreq < MaxRequests
    /\ nreq' = nreq + 1
    /\ LET r == [IdleReq EXCEPT !.op = "delete", !.articleId = id]
       IN req' = [req EXCEPT ![p] =
              IF getArticle(id) = NoArticle THEN Respond(r, 404, "Article not found")
              ELSE [r EXCEPT !.pc = "deleteArticle"]]
    /\ UNCHANGED <<otherVars, contentVars, engagementVars, serial, clock>>

\* faulty variant of DeleteArticleStep: daily_article_stats without its
\* ON DELETE CASCADE
DeleteArticleStepKeepingStats(p) ==
    /\ req[p].op = "delete" /\ req[p].pc = "deleteArticle"
    /\ LET id == req[p].articleId
       IN /\ articles' = {a \in articles : a.id # id}
          /\ references' = {x \in references : x.articleId # id}
          /\ articleVersions' = {x \in articleVersions : x.articleId # id}
          /\ articleViews' = {x \in articleViews : x.articleId # id}
          /\ articleBounces' = {x \in articleBounces : x.articleId # id}
          /\ socialShares' = {x \in socialShares : x.articleId # id}
          /\ dailyArticleStats' = dailyArticleStats
          /\ req' = WriteBy(p, id, Respond(req[p], 200, "Article deleted successfully"))
    /\ UNCHANGED <<otherVars, serial, clock, nreq>>

\* storage.deleteArticle: DELETE FROM articles WHERE id = id, with the
\* ON DELETE CASCADE of every table that references articles
DeleteArticleStep(p) ==
    /\ req[p].op = "delete" /\ req[p].pc = "deleteArticle"
    /\ LET id == req[p].articleId
       IN /\ articles' = {a \in articles : a.id # id}
          /\ references' = {x \in references : x.articleId # id}
          /\ articleVersions' = {x \in articleVersions : x.articleId # id}
          /\ articleViews' = {x \in articleViews : x.articleId # id}
          /\ articleBounces' = {x \in articleBounces : x.articleId # id}
          /\ socialShares' = {x \in socialShares : x.articleId # id}
          /\ dailyArticleStats' = {x \in dailyArticleStats : x.articleId # id}
          /\ req' = WriteBy(p, id, Respond(req[p], 200, "Article deleted successfully"))
    /\ UNCHANGED <<otherVars, serial, clock, nreq>>

----------------------------------------------------------------------------
(* POST /api/articles/:articleId/versions : create a version *)

VersionCreateStart(p, id, body) ==
    /\ Free(p) /\ nreq < MaxRequests
    /\ nreq' = nreq + 1
    /\ LET a == getArticle(id)
           r == [IdleReq EXCEPT !.op = "createVersion", !.articleId = id,
                                !.body = body, !.article = a]
       IN req' = [req EXCEPT ![p] =
              IF a = NoArticle THEN Respond(r, 404, "Article not found")
              ELSE [r EXCEPT !.pc = "getVersions"]]
    /\ UNCHANGED <<otherVars, contentVars, engagementVars, serial, clock>>

\* storage.getArticleVersions, then insertArticleVersionSchema.parse: title
\* and content are NOT NULL columns, so a body without them is a ZodError
VersionCreateGetVersions(p) ==
    /\ req[p].op = "createVersion" /\ req[p].pc = "getVersions"
    /\ req' = [req EXCEPT ![p] =
          IF req[p].body.title = Absent \/ req[p].body.content = Absent
          THEN Respond(@, 400, "Invalid version data")
          ELSE [@ EXCEPT !.latestVersion = latestVersionNumber(req[p].articleId),
                         !.pc = "createVersion"]]
    /\ UNCHANGED <<otherVars, contentVars, engagementVars, serial, clock, nreq>>

\* storage.createArticleVersion(versionData)
VersionCreateInsert(p) ==
    /\ req[p].op = "createVersion" /\ req[p].pc = "createVersion"
    /\ serial' = [serial EXCEPT !.versions = @ + 1]
    /\ LET b == req[p].body
           row == NewVersionRow(req[p].articleId, b.title,
                                IF b.description = Absent THEN Null ELSE b.description,
                                b.content, req[p].latestVersion + 1)
       IN IF ArticleExists(req[p].articleId)
          THEN /\ articleVersions' = createArticleVersion(row)
               /\ req' = [req EXCEPT ![p] = Respond([@ EXCEPT !.created = row], 201, "")]
          ELSE /\ req' = [req EXCEPT ![p] = Respond(@, 500, "Failed to create article version")]
               /\ UNCHANGED articleVersions
    /\ UNCHANGED <<otherVars, articles, references, engagementVars, clock, nreq>>

----------------------------------------------------------------------------
(* GET /api/articles/:articleId/versions/:versionId : fetch one version *)

FetchStart(p, id, versionId) ==
    /\ Free(p) /\ nreq < MaxRequests
    /\ nreq' = nreq + 1
    /\ LET a == getArticle(id)
           r == [IdleReq EXCEPT !.op = "fetch", !.articleId = id,
                                !.versionId = versionId, !.article = a]
       IN req' = [req EXCEPT ![p] =
              IF a = NoArticle THEN Respond(r, 404, "Article not found")
              ELSE [r EXCEPT !.pc = "getVersion"]]
    /\ UNCHANGED <<otherVars, contentVars, engagementVars, serial, clock>>

\* faulty variant of VersionOfArticle: the article id is not compared
VersionExists(version, articleId) ==
    version # NoVersion

\* the ownership check of both GET version and POST restore
VersionOfArticle(version, articleId) ==
    version # NoVersion /\ version.articleId = articleId

FetchGetVersion(p) ==
    /\ req[p].op = "fetch" /\ req[p].pc = "getVersion"
    /\ LET v == getArticleVersion(req[p].versionId)
       IN req' = [req EXCEPT ![p] =
              IF ~VersionOfArticle(v, req[p].articleId)
              THEN Respond(@, 404, "Version not found for this article")
              ELSE Respond([@ EXCEPT !.version = v], 200, "")]
    /\ UNCHANGED <<otherVars, contentVars, engagementVars, serial, clock, nreq>>

----------------------------------------------------------------------------
(* POST /api/articles/:articleId/restore/:versionId : restore a version *)

RestoreStart(p, id, versionId) ==
    /\ Free(p) /\ nreq < MaxRequests
    /\ nreq' = nreq + 1
    /\ LET a == getArticle(id)
           r == [IdleReq EXCEPT !.op = "restore", !.articleId = id,
                                !.versionId = versionId, !.article = a]
       IN req' = [req EXCEPT ![p] =
              IF a = NoArticle THEN Respond(r, 404, "Article not found")
              ELSE [r EXCEPT !.pc = "getVersion"]]
    /\ UNCHANGED <<otherVars, contentVars, engagementVars, serial, clock>>

RestoreGetVersion(p) ==
    /\ req[p].op = "restore" /\ req[p].pc = "getVersion"
    /\ LET v == getArticleVersion(req[p].versionId)
       IN req' = [req EXCEPT ![p] =
              IF ~VersionOfArticle(v, req[p].articleId)
              THEN Respond(@, 404, "Version not found for this article")
              ELSE [@ EXCEPT !.version = v, !.pc = "updateArticle"]]
    /\ UNCHANGED <<otherVars, contentVars, engagementVars, serial, clock, nreq>>

\* faulty variant of RestoreData: the content is not written back
RestoreDataNoContent(version) ==
    [NoBody EXCEPT !.title = version.title, !.description = version.description]

\* the fields restore writes back to the article
RestoreData(version) ==
    [NoBody EXCEPT !.title = version.title, !.description = version.description,
                   !.content = version.content]

\* storage.updateArticle(articleId, {title, description, content})
RestoreUpdateArticle(p) ==
    /\ req[p].op = "restore" /\ req[p].pc = "updateArticle"
    /\ articles' = updateArticle(req[p].articleId, RestoreData(req[p].version))
    /\ req' = WriteBy(p, req[p].articleId, [req[p] EXCEPT !.pc = "getVersions"])
    /\ UNCHANGED <<otherVars, references, articleVersions, engagementVars, serial, clock, nreq>>

RestoreGetVersions(p) ==
    /\ req[p].op = "restore" /\ req[p].pc = "getVersions"
    /\ req' = [req EXCEPT ![p] =
          [@ EXCEPT !.latestVersion = latestVersionNumber(req[p].articleId),
                    !.pc = "createVersion"]]
    /\ UNCHANGED <<otherVars, contentVars, engagementVars, serial, clock, nreq>>

\* storage.createArticleVersion({... versionNumber: latestVersion + 1})
RestoreCreateVersion(p) ==
    /\ req[p].op = "restore" /\ req[p].pc = "createVersion"
    /\ serial' = [serial EXCEPT !.versions = @ + 1]
    /\ LET v == req[p].version
           row == NewVersionRow(req[p].articleId, v.title, v.description, v.content,
                                req[p].latestVersion + 1)
       IN IF ArticleExists(req[p].articleId)
          THEN /\ articleVersions' = createArticleVersion(row)
               /\ req' = [req EXCEPT ![p] = Respond([@ EXCEPT !.created = row], 200, "")]
          ELSE /\ req' = [req EXCEPT ![p] = Respond(@, 500, "Failed to restore article version")]
               /\ UNCHANGED articleVersions
    /\ UNCHANGED <<otherVars, articles, references, engagementVars, clock, nreq>>

----------------------------------------------------------------------------
(* DatabaseStorage: engagement recorder and daily aggregate *)

\* Math.round(num / den) for num >= 0, den > 0: halves round up
MathRound(num, den) == (2 * num + den) \div (2 * den)

\* the rows `select from dailyArticleStats where articleId = .. and date = ..`
\* returns
StatsFor(articleId, date) ==
    {s \in dailyArticleStats : s.articleId = articleId /\ s.date = date}

\* the row the insert branch of a record* method adds
NewStatRow(articleId, date, views, shares, bounces, averageTimeOnPage) ==
    [id |-> serial.stats, articleId |-> articleId, date |-> date, views |-> views,
     shares |-> shares, bounces |-> bounces, averageTimeOnPage |-> averageTimeOnPage]

\* recordArticleBounce: the average written to an existing row
NewAvgTime(existingStat, timeOnPage) ==
    IF TruthyNum(timeOnPage)
    THEN MathRound(existingStat.averageTimeOnPage * existingStat.bounces + timeOnPage,
                   existingStat.bounces + 1)
    ELSE existingStat.averageTimeOnPage

\* faulty variant of FirstAvgTime: a fresh row always starts at 0
FirstAvgTimeZero(timeOnPage) == 0

\* recordArticleBounce: the average of a freshly inserted row, timeOnPage || 0
FirstAvgTime(timeOnPage) == IF TruthyNum(timeOnPage) THEN timeOnPage ELSE 0

\* POST /view, recordArticleView: insert into articleViews
RecordViewInsert(p, articleId, limit) ==
    /\ Free(p) /\ nreq < limit
    /\ nreq' = nreq + 1
    /\ serial' = [serial EXCEPT !.views = @ + 1]
    /\ LET r == [IdleReq EXCEPT !.op = "view", !.articleId = articleId]
       IN IF ArticleExists(articleId)
          THEN /\ articleViews' = articleViews \cup
                     {[id |-> serial.views, articleId |-> articleId, day |-> clock]}
               /\ req' = [req EXCEPT ![p] = [r EXCEPT !.pc = "selectStat"]]
          ELSE /\ req' = [req EXCEPT ![p] = Respond(r, 500, "Failed to record view")]
               /\ UNCHANGED articleViews
    /\ UNCHANGED <<otherVars, contentVars, articleBounces, socialShares, dailyArticleStats, clock>>

\* POST /bounce, recordArticleBounce: insert into articleBounces
RecordBounceInsert(p, articleId, timeOnPage, limit) ==
    /\ Free(p) /\ nreq < limit
    /\ nreq' = nreq + 1
    /\ serial' = [serial EXCEPT !.bounces = @ + 1]
    /\ LET r == [IdleReq EXCEPT !.op = "bounce", !.articleId = articleId,
                                !.timeOnPage = timeOnPage]
       IN IF ArticleExists(articleId)
          THEN /\ articleBounces' = articleBounces \cup
                     {[id |-> serial.bounces, articleId |-> articleId,
                       timeOnPage |-> timeOnPage, day |-> clock]}
               /\ req' = [req EXCEPT ![p] = [r EXCEPT !.pc = "selectStat"]]
          ELSE /\ req' = [req EXCEPT ![p] = Respond(r, 500, "Failed to record bounce")]
               /\ UNCHANGED articleBounces
    /\ UNCHANGED <<otherVars, contentVars, articleViews, socialShares, dailyArticleStats, clock>>

\* faulty variant of RecordShareInsert: the share is logged as a view as well
RecordShareInsertAsView(p, articleId, limit) ==
    /\ Free(p) /\ nreq < limit
    /\ nreq' = nreq + 1
    /\ serial' = [serial EXCEPT !.shares = @ + 1, !.views = @ + 1]
    /\ LET r == [IdleReq EXCEPT !.op = "share", !.articleId = articleId]
       IN IF ArticleExists(articleId)
          THEN /\ socialShares' = socialShares \cup
                     {[id |-> serial.shares, articleId |-> articleId, day |-> clock]}
               /\ articleViews' = articleViews \cup
                     {[id |-> serial.views, articleId |-> articleId, day |-> clock]}
               /\ req' = [req EXCEPT ![p] = [r EXCEPT !.pc = "selectStat"]]
          ELSE /\ req' = [req EXCEPT ![p] = Respond(r, 500, "Failed to record share")]
               /\ UNCHANGED <<socialShares, articleViews>>
    /\ UNCHANGED <<otherVars, contentVars, articleBounces, dailyArticleStats, clock>>

\* POST /share, recordSocialShare: insert into socialShares
RecordShareInsert(p, articleId, limit) ==
    /\ Free(p) /\ nreq < limit
    /\ nreq' = nreq + 1
    /\ serial' = [serial EXCEPT !.shares = @ + 1]
    /\ LET r == [IdleReq EXCEPT !.op = "share", !.articleId = articleId]
       IN IF ArticleExists(articleId)
          THEN /\ socialShares' = socialShares \cup
                     {[id |-> serial.shares, articleId |-> articleId, day |-> clock]}
               /\ req' = [req EXCEPT ![p] = [r EXCEPT !.pc = "selectStat"]]
          ELSE /\ req' = [req EXCEPT ![p] = Respond(r, 500, "Failed to record share")]
               /\ UNCHANGED socialShares
    /\ UNCHANGED <<otherVars, contentVars, articleViews, articleBounces, dailyArticleStats, clock>>

\* all three methods: today = new Date() at midnight; [existingStat] = select ..
\* (the first row of an unordered result: any of the matching rows)
RecordSelectStat(p) ==
    /\ req[p].op \in {"view", "bounce", "share"} /\ req[p].pc = "selectStat"
    /\ \E s \in IF StatsFor(req[p].articleId, clock) = {} THEN {NoStat}
                ELSE StatsFor(req[p].articleId, clock) :
          req' = [req EXCEPT ![p] = [@ EXCEPT !.today = clock, !.existingStat = s,
                                               !.pc = "writeStat"]]
    /\ UNCHANGED <<otherVars, contentVars, engagementVars, serial, clock, nreq>>

\* faulty variant of UpdateStat: the columns that are not set are reset
UpdateStatResetting(id, changes) ==
    {IF s.id # id THEN s
     ELSE [c \in DOMAIN s |-> IF c \in DOMAIN changes THEN changes[c]
                              ELSE IF c \in {"id", "articleId", "date"} THEN s[c]
                              ELSE 0]
     : s \in dailyArticleStats}

\* update dailyArticleStats set <changes> where id = existingStat.id
UpdateStat(id, changes) ==
    {IF s.id # id THEN s
     ELSE [c \in DOMAIN s |-> IF c \in DOMAIN changes THEN changes[c] ELSE s[c]]
     : s \in dailyArticleStats}

\* the write of a record* method: `row` is inserted when no row was found,
\* otherwise `updated` replaces the table
WriteStat(p, row, updated, failure) ==
    IF req[p].existingStat # NoStat
    THEN /\ dailyArticleStats' = updated
         /\ req' = [req EXCEPT ![p] = Respond(@, 201, "")]
         /\ UNCHANGED serial
    ELSE /\ serial' = [serial EXCEPT !.stats = @ + 1]
         /\ IF ArticleExists(req[p].articleId)
            THEN /\ dailyArticleStats' = dailyArticleStats \cup {row}
                 /\ req' = [req EXCEPT ![p] = Respond(@, 201, "")]
            ELSE /\ req' = [req EXCEPT ![p] = Respond(@, 500, failure)]
                 /\ UNCHANGED dailyArticleStats

\* recordArticleView: views = existingStat.views + 1, or a row with views 1
RecordViewWrite(p) ==
    /\ req[p].op = "view" /\ req[p].pc = "writeStat"
    /\ LET e == req[p].existingStat
       IN WriteStat(p, NewStatRow(req[p].articleId, req[p].today, 1, 0, 0, 0),
                    UpdateStat(e.id, [views |-> e.views + 1]),
                    "Failed to record view")
    /\ UNCHANGED <<otherVars, contentVars, articleViews, articleBounces, socialShares, clock, nreq>>

\* recordArticleBounce: bounces + 1 and the recomputed average, or a row with
\* bounces 1 and the sample as average
RecordBounceWrite(p) ==
    /\ req[p].op = "bounce" /\ req[p].pc = "writeStat"
    /\ LET e == req[p].existingStat
       IN WriteStat(p, NewStatRow(req[p].articleId, req[p].today, 0, 0, 1,
                                  FirstAvgTime(req[p].timeOnPage)),
                    UpdateStat(e.id, [bounces |-> e.bounces + 1,
                                      averageTimeOnPage |-> NewAvgTime(e, req[p].timeOnPage)]),
                    "Failed to record bounce")
    /\ UNCHANGED <<otherVars, contentVars, articleViews, articleBounces, socialShares, clock, nreq>>

\* recordSocialShare: shares = existingStat.shares + 1, or a row with shares 1
RecordShareWrite(p) ==
    /\ req[p].op = "share" /\ req[p].pc = "writeStat"
    /\ LET e == req[p].existingStat
       IN WriteStat(p, NewStatRow(req[p].articleId, req[p].today, 0, 1, 0, 0),
                    UpdateStat(e.id, [shares |-> e.shares + 1]),
                    "Failed to record share")
    /\ UNCHANGED <<otherVars, contentVars, articleViews, articleBounces, socialShares, clock, nreq>>

\* midnight passes
Tick ==
    /\ clock < MaxDay
    /\ clock' = clock + 1
    /\ UNCHANGED <<otherVars, contentVars, engagementVars, serial, req, nreq>>
----------------------------------------------------------------------------
Init ==
    /\ LimiterIdle
    /\ Seeded
    /\ articles = {}
    /\ references = {}
    /\ articleVersions = {}
    /\ articleViews = {}
    /\ articleBounces = {}
    /\ socialShares = {}
    /\ dailyArticleStats = {}
    /\ serial = [articles |-> 1, references |-> 1, versions |-> 1, views |-> 1,
                 bounces |-> 1, shares |-> 1, stats |-> 1, topics |-> 1]
    /\ clock = 1
    /\ req = [p \in Procs |-> IdleReq]
    /\ nreq = 0
    /\ topics = {}
    /\ session = "admin"

(* Request inputs of the content store *)

ArticleIds == {1, 2}
VersionIds == {1, 2, 3}

CreateBodies ==
    {[NoBody EXCEPT !.title = "a", !.content = "x"],
     [NoBody EXCEPT !.title = "B", !.description = "d", !.content = "y",
                    !.hasReferences = TRUE, !.references = <<"ok", "bad">>]}

UpdateBodies ==
    {[NoBody EXCEPT !.title = "a"],
     [NoBody EXCEPT !.title = "b"],
     [NoBody EXCEPT !.content = "y"],
     [NoBody EXCEPT !.content = ""],
     [NoBody EXCEPT !.description = "e"],
     [NoBody EXCEPT !.hasReferences = TRUE, !.references = <<"ok">>]}

VersionBodies ==
    {[NoBody EXCEPT !.title = "c", !.content = "z"],
     [NoBody EXCEPT !.title = "c"]}

NextContent ==
    \E p \in Procs :
            \/ \E b \in CreateBodies : CreateArticle(p, b)
            \/ \E id \in ArticleIds, b \in UpdateBodies : UpdateStart(p, id, b)
            \/ \E id \in ArticleIds, b \in VersionBodies : VersionCreateStart(p, id, b)
            \/ \E id \in ArticleIds, v \in VersionIds : FetchStart(p, id, v)
            \/ \E id \in ArticleIds, v \in VersionIds : RestoreStart(p, id, v)
            \/ \E id \in ArticleIds : DeleteStart(p, id)
            \/ CreateReferences(p)
            \/ CreateInitialVersion(p)
            \/ UpdateArticleStep(p)
            \/ UpdateGetVersions(p)
            \/ UpdateCreateVersion(p)
            \/ UpdateReferences(p)
            \/ VersionCreateGetVersions(p)
            \/ VersionCreateInsert(p)
            \/ FetchGetVersion(p)
            \/ RestoreGetVersion(p)
            \/ RestoreUpdateArticle(p)
            \/ RestoreGetVersions(p)
            \/ RestoreCreateVersion(p)
            \/ DeleteArticleStep(p)

SpecContent == Init /\ [][NextContent]_vars

----------------------------------------------------------------------------
(* Engagement runs: the store already holds two articles with version 1 *)

SeedArticle(id, title, content) ==
    [id |-> id, title |-> title, slug |-> slugify(title), description |-> Null,
     content |-> content, topicId |-> NoTopic, authorId |-> AdminId,
     status |-> "published", updatedAt |-> 1]

SeedVersion(a) ==
    [id |-> a.id, articleId |-> a.id, title |-> a.title, description |-> a.description,
     content |-> a.content, versionNumber |-> 1]

InitEngagement ==
    /\ LimiterIdle
    /\ Seeded
    /\ articles = {SeedArticle(1, "a", "x"), SeedArticle(2, "b", "y")}
    /\ references = {}
    /\ articleVersions = {SeedVersion(a) : a \in {SeedArticle(1, "a", "x"), SeedArticle(2, "b", "y")}}
    /\ articleViews = {}
    /\ articleBounces = {}
    /\ socialShares = {}
    /\ dailyArticleStats = {}
    /\ serial = [articles |-> 3, references |-> 1, versions |-> 3, views |-> 1,
                 bounces |-> 1, shares |-> 1, stats |-> 1, topics |-> 1]
    /\ clock = 1
    /\ req = [p \in Procs |-> IdleReq]
    /\ nreq = 0
    /\ topics = {}
    /\ session = "admin"

\* timeOnPage values of overlapping recordings / of a sequential client
Samples == {NoSample, 10}
SequentialSamples == {0, 10, 20, 30}

RecordSteps(p) ==
    \/ RecordSelectStat(p)
    \/ RecordViewWrite(p)
    \/ RecordBounceWrite(p)
    \/ RecordShareWrite(p)

\* overlapping recordings from two request slots
NextEngagement ==
    \/ \E p \in Procs, id \in ArticleIds :
          \/ RecordViewInsert(p, id, MaxEvents)
          \/ \E t \in Samples : RecordBounceInsert(p, id, t, MaxEvents)
          \/ RecordShareInsert(p, id, MaxEvents)
    \/ \E p \in Procs : RecordSteps(p)
    \/ Tick

SpecEngagement == InitEngagement /\ [][NextEngagement]_vars

\* one client recording on article 1, each request after the previous finished
NextSequential ==
    \/ RecordViewInsert("p1", 1, MaxSequential)
    \/ \E t \in SequentialSamples : RecordBounceInsert("p1", 1, t, MaxSequential)
    \/ RecordShareInsert("p1", 1, MaxSequential)
    \/ RecordSteps("p1")
    \/ Tick

SpecSequential == InitEngagement /\ [][NextSequential]_vars

----------------------------------------------------------------------------
(* /api/topics : the topics router *)

getTopic(id) ==
    IF \E t \in topics : t.id = id
    THEN CHOOSE t \in topics : t.id = id
    ELSE NoTopicRow

\* the unique constraints on topics.name and topics.slug, for the row `row`
TopicFree(row) ==
    \A t \in topics : t.id # row.id => (t.name # row.name /\ t.slug # row.slug)

\* POST /: the row handed to storage.createTopic
NewTopicRow(data) ==
    [id |-> serial.topics, name |-> data.name,
     slug |-> IF Truthy(data.slug) THEN data.slug ELSE slugify(data.name)]

\* POST /: storage.createTopic; a duplicate key answers 409
CreateTopic(p, data) ==
    /\ Free(p) /\ nreq < MaxRequests
    /\ nreq' = nreq + 1
    /\ serial' = [serial EXCEPT !.topics = @ + 1]
    /\ LET row == NewTopicRow(data)
           r == [IdleReq EXCEPT !.op = "topicCreate", !.topicData = data]
       IN IF TopicFree(row)
          THEN /\ topics' = topics \cup {row}
               /\ req' = [req EXCEPT ![p] = Respond([r EXCEPT !.topicId = row.id], 201, "")]
          ELSE /\ topics' = topics
               /\ req' = [req EXCEPT ![p] =
                            Respond([r EXCEPT !.conflict = TRUE], 409,
                                    "Topic with this name or slug already exists")]
    /\ UNCHANGED <<session, limiterVars, seedVars, contentVars, engagementVars, clock>>

\* PUT /:id: updateData after `if (updateData.name && !updateData.slug)`
topicUpdateData(data) ==
    IF Truthy(data.name) /\ ~Truthy(data.slug)
    THEN [data EXCEPT !.slug = slugify(data.name)]
    ELSE data

\* PUT /:id: storage.getTopic, 404 when missing, then the body is parsed
UpdateTopicStart(p, id, data) ==
    /\ Free(p) /\ nreq < MaxRequests
    /\ nreq' = nreq + 1
    /\ LET r == [IdleReq EXCEPT !.op = "topicUpdate", !.topicId = id,
                                !.topicData = topicUpdateData(data)]
       IN req' = [req EXCEPT ![p] =
              IF getTopic(id) = NoTopicRow THEN Respond(r, 404, "Topic not found")
              ELSE [r EXCEPT !.pc = "updateTopic"]]
    /\ UNCHANGED <<otherVars, contentVars, engagementVars, serial, clock>>

\* storage.updateTopic: UPDATE topics SET <supplied keys> WHERE id = id
updateTopic(id, data) ==
    {IF t.id # id THEN t
     ELSE [t EXCEPT !.name = IF data.name = Absent THEN @ ELSE data.name,
                    !.slug = IF data.slug = Absent THEN @ ELSE data.slug]
     : t \in topics}

\* PUT /:id: storage.updateTopic; a duplicate key answers 409
UpdateTopicStep(p) ==
    /\ req[p].op = "topicUpdate" /\ req[p].pc = "updateTopic"
    /\ LET id == req[p].topicId
           new == CHOOSE t \in updateTopic(id, req[p].topicData) \cup {NoTopicRow} :
                      t.id = getTopic(id).id
       IN IF getTopic(id) # NoTopicRow /\ ~TopicFree(new)
          THEN /\ topics' = topics
               /\ req' = [req EXCEPT ![p] =
                            Respond([@ EXCEPT !.conflict = TRUE], 409,
                                    "Topic with this name or slug already exists")]
          ELSE /\ topics' = updateTopic(id, req[p].topicData)
               /\ req' = [req EXCEPT ![p] = Respond(@, 200, "")]
    /\ UNCHANGED <<session, limiterVars, seedVars, contentVars, engagementVars, serial, clock, nreq>>

\* DELETE /:id: storage.getTopic, 404 when missing
DeleteTopicStart(p, id) ==
    /\ Free(p) /\ nreq < MaxRequests
    /\ nreq' = nreq + 1
    /\ LET r == [IdleReq EXCEPT !.op = "topicDelete", !.topicId = id]
       IN req' = [req EXCEPT ![p] =
              IF getTopic(id) = NoTopicRow THEN Respond(r, 404, "Topic not found")
              ELSE [r EXCEPT !.pc = "deleteTopic"]]
    /\ UNCHANGED <<otherVars, contentVars, engagementVars, serial, clock>>

\* faulty variant of SetNullTopic: topic_id declared ON DELETE CASCADE
SetNullTopicCascading(id) == {a \in articles : a.topicId # id}

\* the ON DELETE SET NULL of articles.topic_id
SetNullTopic(id) ==
    {IF a.topicId = id THEN [a EXCEPT !.topicId = NoTopic] ELSE a : a \in articles}

\* storage.deleteTopic: DELETE FROM topics WHERE id = id
DeleteTopicStep(p) ==
    /\ req[p].op = "topicDelete" /\ req[p].pc = "deleteTopic"
    /\ LET id == req[p].topicId
       IN /\ topics' = {t \in topics : t.id # id}
          /\ articles' = SetNullTopic(id)
    /\ req' = [req EXCEPT ![p] = Respond(@, 200, "Topic deleted successfully")]
    /\ UNCHANGED <<session, limiterVars, seedVars, references, articleVersions, engagementVars, serial, clock, nreq>>

----------------------------------------------------------------------------
(* The route table: isAuthenticated, isAdmin in front of the mutation routes *)

Principals == {"admin", "user", "none"}

\* the request is answered by the gate and never reaches its handler
Reject(p, route) ==
    /\ Free(p) /\ nreq < MaxRequests
    /\ nreq' = nreq + 1
    /\ LET r == [IdleReq EXCEPT !.op = route]
       IN req' = [req EXCEPT ![p] =
              IF session = "none" THEN Respond(r, 401, "Unauthorized")
              ELSE Respond(r, 403, "Forbidden")]
    /\ UNCHANGED <<otherVars, contentVars, engagementVars, serial, clock>>

\* isAuthenticated, isAdmin: only the admin reaches the handler
Gate(p, route, handler) ==
    IF session = "admin" THEN handler ELSE Reject(p, route)

\* a client signs in or out between two requests
SignIn(s) ==
    /\ s # session
    /\ session' = s
    /\ UNCHANGED <<topics, limiterVars, seedVars, contentVars, engagementVars, serial, clock, req, nreq>>

\* faulty variant of PostArticle: the route without its gate
PostArticleOpen(p, body) == CreateArticle(p, body)

PostArticle(p, body) == Gate(p, "create", CreateArticle(p, body))

PutArticle(p, id, body) == Gate(p, "update", UpdateStart(p, id, body))

DeleteArticle(p, id) == Gate(p, "delete", DeleteStart(p, id))

PostVersion(p, id, body) == Gate(p, "createVersion", VersionCreateStart(p, id, body))

PostRestore(p, id, versionId) == Gate(p, "restore", RestoreStart(p, id, versionId))

PostTopic(p, data) == Gate(p, "topicCreate", CreateTopic(p, data))

PutTopic(p, id, data) == Gate(p, "topicUpdate", UpdateTopicStart(p, id, data))

DeleteTopic(p, id) == Gate(p, "topicDelete", DeleteTopicStart(p, id))

----------------------------------------------------------------------------
(* The whole store behind the route table, seeded; one client whose requests
   follow one another *)

SeedTopic(id, name) == [id |-> id, name |-> name, slug |-> slugify(name)]

SeedReference(a) == [id |-> a.id, articleId |-> a.id]

SeedArticles ==
    {[SeedArticle(1, "a", "x") EXCEPT !.topicId = 1],
     [SeedArticle(2, "b", "y") EXCEPT !.topicId = 2]}

InitStore ==
    /\ LimiterIdle
    /\ Seeded
    /\ topics = {SeedTopic(1, "Salah"), SeedTopic(2, "Sawm")}
    /\ articles = SeedArticles
    /\ references = {SeedReference(a) : a \in SeedArticles}
    /\ articleVersions = {SeedVersion(a) : a \in SeedArticles}
    /\ articleViews = {}
    /\ articleBounces = {}
    /\ socialShares = {}
    /\ dailyArticleStats = {}
    /\ serial = [articles |-> 3, references |-> 3, versions |-> 3, views |-> 1,
                 bounces |-> 1, shares |-> 1, stats |-> 1, topics |-> 3]
    /\ clock = 1
    /\ req = [p \in Procs |-> IdleReq]
    /\ nreq = 0
    /\ session \in Principals

TopicIds == {1, 2}

StoreCreateBodies ==
    {[NoBody EXCEPT !.title = "C", !.content = "z", !.topicId = 1],
     [NoBody EXCEPT !.title = "A", !.content = "z"]}

StoreUpdateBodies ==
    {[NoBody EXCEPT !.title = "b"],
     [NoBody EXCEPT !.content = "w"],
     [NoBody EXCEPT !.content = ""]}

TopicBodies ==
    {[NoTopicData EXCEPT !.name = "Hajj"],
     [NoTopicData EXCEPT !.name = "Sawm"]}

NextStore ==
    \/ \E s \in Principals : SignIn(s)
    \/ \E p \in {"p1"} :
          \/ \E b \in StoreCreateBodies : PostArticle(p, b)
          \/ \E id \in ArticleIds, b \in StoreUpdateBodies : PutArticle(p, id, b)
          \/ \E id \in ArticleIds : DeleteArticle(p, id)
          \/ \E id \in ArticleIds, b \in VersionBodies : PostVersion(p, id, b)
          \/ \E id \in ArticleIds : PostRestore(p, id, id)
          \/ \E b \in TopicBodies : PostTopic(p, b)
          \/ \E id \in TopicIds, b \in TopicBodies : PutTopic(p, id, b)
          \/ \E id \in TopicIds : DeleteTopic(p, id)
          \/ \E id \in ArticleIds : RecordViewInsert(p, id, MaxRequests)
          \/ \E id \in ArticleIds : RecordBounceInsert(p, id, 10, MaxRequests)
          \/ \E id \in ArticleIds : RecordShareInsert(p, id, MaxRequests)
          \/ CreateReferences(p)
          \/ CreateInitialVersion(p)
          \/ UpdateArticleStep(p)
          \/ UpdateGetVersions(p)
          \/ UpdateCreateVersion(p)
          \/ UpdateReferences(p)
          \/ DeleteArticleStep(p)
          \/ VersionCreateGetVersions(p)
          \/ VersionCreateInsert(p)
          \/ RestoreGetVersion(p)
          \/ RestoreUpdateArticle(p)
          \/ RestoreGetVersions(p)
          \/ RestoreCreateVersion(p)
          \/ UpdateTopicStep(p)
          \/ DeleteTopicStep(p)
          \/ RecordSteps(p)

SpecStore == InitStore /\ [][NextStore]_vars

----------------------------------------------------------------------------
(* GET /api/analytics/article/:id and /articles : the statistics queries *)

Min(a, b) == IF a < b THEN a ELSE b

\* the sequences that hold every row of S once
Listings(S) ==
    {f \in [1..Cardinality(S) -> S] :
        \A i, j \in 1..Cardinality(S) : i # j => f[i] # f[j]}

\* the results a database may return for ORDER BY date
OrderByDate(S) ==
    {f \in Listings(S) : \A i, j \in 1..Len(f) : i < j => f[i].date <= f[j].date}

\* the results a database may return for ORDER BY views DESC
OrderByViewsDesc(S) ==
    {f \in Listings(S) : \A i, j \in 1..Len(f) : i < j => f[i].views >= f[j].views}

\* LIMIT n
Limit(rows, n) == SubSeq(rows, 1, Min(n, Len(rows)))

\* the query builder: where() stores the condition in the query,
\* replacing the one stored before
where(query, condition) == [query EXCEPT !.where = condition]

eq(column, value) == [op |-> "eq", column |-> column, value |-> value]
gte(column, value) == [op |-> "gte", column |-> column, value |-> value]
lte(column, value) == [op |-> "lte", column |-> column, value |-> value]

\* text ILIKE '%search%': the text holds search, whatever the case; a NULL
\* text matches nothing
ILike(text, search) ==
    /\ text # Null
    /\ LET hay == toLowerCase(text)
           needle == toLowerCase(search)
       IN \E i \in 1..(Len(hay) - Len(needle) + 1) :
             SubSeq(hay, i, i + Len(needle) - 1) = needle

ilike(search) == [op |-> "ilike", column |-> "", value |-> search]

Holds(condition, row) ==
    CASE condition.op = "eq" -> row[condition.column] = condition.value
      [] condition.op = "ilike" -> \/ ILike(row.title, condition.value)
                                   \/ ILike(row.description, condition.value)
                                   \/ ILike(row.content, condition.value)
      [] condition.op = "gte" -> row[condition.column] >= condition.value
      [] condition.op = "lte" -> row[condition.column] <= condition.value

\* storage.getArticleStats: the query as the builder calls leave it
statsQuery(articleId, startDate, endDate) ==
    LET q0 == where([from |-> "dailyArticleStats", where |-> Null],
                    eq("articleId", articleId))
        q1 == IF startDate # NoDate THEN where(q0, gte("date", startDate)) ELSE q0
    IN IF endDate # NoDate THEN where(q1, lte("date", endDate)) ELSE q1

\* storage.getArticleStats: the possible results
getArticleStats(articleId, startDate, endDate) ==
    OrderByDate({row \in dailyArticleStats :
                    Holds(statsQuery(articleId, startDate, endDate).where, row)})

\* GET /article/:id
GetArticleStats(p, articleId, startDate, endDate) ==
    /\ Free(p) /\ nreq < MaxAnalytics
    /\ nreq' = nreq + 1
    /\ \E rows \in getArticleStats(articleId, startDate, endDate) :
          req' = [req EXCEPT ![p] =
                    Respond([IdleReq EXCEPT !.op = "articleStats", !.articleId = articleId,
                                            !.startDate = startDate, !.endDate = endDate,
                                            !.result = rows], 200, "")]
    /\ UNCHANGED <<otherVars, contentVars, engagementVars, serial, clock>>

TopLimit == 5

\* storage.getOverviewStats, top articles: articleViews INNER JOIN articles
\* GROUP BY id, title with COUNT(articleViews.id) AS views
TopRows ==
    {[id |-> a.id, title |-> a.title,
      views |-> Cardinality({v \in articleViews : v.articleId = a.id})]
     : a \in {a \in articles : \E v \in articleViews : v.articleId = a.id}}

\* ORDER BY views DESC LIMIT 5: the possible results
topArticles(startDate, endDate) ==
    {Limit(rows, TopLimit) : rows \in OrderByViewsDesc(TopRows)}

\* GET /articles: stats.topArticles of storage.getOverviewStats
GetTopArticles(p, startDate, endDate) ==
    /\ Free(p) /\ nreq < MaxAnalytics
    /\ nreq' = nreq + 1
    /\ \E rows \in topArticles(startDate, endDate) :
          req' = [req EXCEPT ![p] =
                    Respond([IdleReq EXCEPT !.op = "topArticles",
                                            !.startDate = startDate, !.endDate = endDate,
                                            !.result = rows], 200, "")]
    /\ UNCHANGED <<otherVars, contentVars, engagementVars, serial, clock>>

Dates == {NoDate} \cup (1..MaxDay)

\* one client that records views and asks for the statistics
NextAnalytics ==
    \/ \E id \in ArticleIds : RecordViewInsert("p1", id, MaxAnalytics)
    \/ RecordSelectStat("p1")
    \/ RecordViewWrite("p1")
    \/ \E id \in ArticleIds, d, e \in Dates : GetArticleStats("p1", id, d, e)
    \/ \E d, e \in Dates : GetTopArticles("p1", d, e)
    \/ Tick

SpecAnalytics == InitEngagement /\ [][NextAnalytics]_vars

----------------------------------------------------------------------------
(* GET /api/articles : the article listing *)

\* storage.getArticles: one condition per filter whose value is truthy
conditions(options) ==
    (IF TruthyNum(options.topicId) THEN <<eq("topicId", options.topicId)>> ELSE <<>>)
    \o (IF Truthy(options.status) THEN <<eq("status", options.status)>> ELSE <<>>)
    \o (IF TruthyNum(options.authorId) THEN <<eq("authorId", options.authorId)>> ELSE <<>>)
    \o (IF Truthy(options.search) THEN <<ilike(options.search)>> ELSE <<>>)

\* conditions.reduce((acc, condition) => and(acc, condition)), or no where
\* clause: the rows of articles the clause selects
whereClause(options) ==
    LET all == conditions(options)
    IN {a \in articles : \A i \in 1..Len(all) : Holds(all[i], a)}

\* the results a database may return for ORDER BY updatedAt DESC
OrderByUpdatedAtDesc(S) ==
    {f \in Listings(S) :
        \A i, j \in 1..Len(f) : i < j => f[i].updatedAt >= f[j].updatedAt}

\* LIMIT limit OFFSET offset
LimitOffset(rows, limit, offset) ==
    SubSeq(rows, offset + 1, Min(offset + limit, Len(rows)))

\* faulty variant of countArticles: the count query without the where clause
countAllArticles(options) == Cardinality(articles)

\* select count() from articles where <whereClause>
countArticles(options) == Cardinality(whereClause(options))

\* GET /: the query is parsed, then the count query of storage.getArticles
GetArticlesCount(p, options) ==
    /\ Free(p) /\ nreq < MaxQueries
    /\ nreq' = nreq + 1
    /\ req' = [req EXCEPT ![p] =
                 [IdleReq EXCEPT !.op = "list", !.pc = "page", !.options = options,
                                 !.total = countArticles(options)]]
    /\ UNCHANGED <<otherVars, contentVars, engagementVars, serial, clock>>

\* the page query of storage.getArticles and the answer {articles, total}
GetArticlesPage(p) ==
    /\ req[p].op = "list" /\ req[p].pc = "page"
    /\ \E rows \in OrderByUpdatedAtDesc(whereClause(req[p].options)) :
          req' = [req EXCEPT ![p] =
                    Respond([@ EXCEPT !.result = LimitOffset(rows, req[p].options.limit,
                                                             req[p].options.offset)],
                            200, "")]
    /\ UNCHANGED <<otherVars, contentVars, engagementVars, serial, clock, nreq>>

\* the three articles of the listing scenario
ListedArticle(id, title, description, status, updatedAt) ==
    [id |-> id, title |-> title, slug |-> slugify(title), description |-> description,
     content |-> "x", topicId |-> id, authorId |-> AdminId, status |-> status,
     updatedAt |-> updatedAt]

InitQuery ==
    /\ LimiterIdle
    /\ Seeded
    /\ \E u1, u2, u3 \in 1..MaxStamp :
          articles = {ListedArticle(1, "Salah Importance", Null, "published", u1),
                      ListedArticle(2, "Quran Study", "and salah", "draft", u2),
                      ListedArticle(3, "Salah History", "d", "published", u3)}
    /\ topics = {SeedTopic(1, "Salah"), SeedTopic(2, "Quran"), SeedTopic(3, "Sira")}
    /\ references = {}
    /\ articleVersions = {}
    /\ articleViews = {}
    /\ articleBounces = {}
    /\ socialShares = {}
    /\ dailyArticleStats = {}
    /\ serial = [articles |-> 4, references |-> 1, versions |-> 1, views |-> 1,
                 bounces |-> 1, shares |-> 1, stats |-> 1, topics |-> 4]
    /\ clock = MaxStamp
    /\ req = [p \in Procs |-> IdleReq]
    /\ nreq = 0
    /\ session = "none"

ListOptions ==
    [topicId : {Unset, 3}, status : {Absent, "published"}, authorId : {Unset, AdminId},
     search : {Absent, "salah", "ISTO"}, limit : {1, 10}, offset : {0, 1}]

\* one anonymous client listing the articles
NextQuery ==
    \/ \E o \in ListOptions : GetArticlesCount("p1", o)
    \/ GetArticlesPage("p1")

SpecQuery == InitQuery /\ [][NextQuery]_vars

----------------------------------------------------------------------------
(* Recordings on an article-day whose aggregate row exists: article 1 was
   viewed once on day 1 *)

InitAggregated ==
    /\ LimiterIdle
    /\ Seeded
    /\ articles = {SeedArticle(1, "a", "x"), SeedArticle(2, "b", "y")}
    /\ references = {}
    /\ articleVersions = {SeedVersion(a) : a \in {SeedArticle(1, "a", "x"), SeedArticle(2, "b", "y")}}
    /\ articleViews = {[id |-> 1, articleId |-> 1, day |-> 1]}
    /\ articleBounces = {}
    /\ socialShares = {}
    /\ dailyArticleStats =
          {[id |-> 1, articleId |-> 1, date |-> 1, views |-> 1, shares |-> 0,
            bounces |-> 0, averageTimeOnPage |-> 0]}
    /\ serial = [articles |-> 3, references |-> 1, versions |-> 3, views |-> 2,
                 bounces |-> 1, shares |-> 1, stats |-> 2, topics |-> 1]
    /\ clock = 1
    /\ req = [p \in Procs |-> IdleReq]
    /\ nreq = 0
    /\ topics = {}
    /\ session = "none"

\* overlapping recordings on article 1
NextAggregated ==
    \E p \in Procs :
       \/ RecordViewInsert(p, 1, MaxRecordings)
       \/ RecordBounceInsert(p, 1, 10, MaxRecordings)
       \/ RecordShareInsert(p, 1, MaxRecordings)
       \/ RecordSteps(p)

SpecAggregated == InitAggregated /\ [][NextAggregated]_vars

----------------------------------------------------------------------------
(* Writers of one article: article 1 was created as "a" and updated to "b",
   and well-formed create, update and restore requests overlap *)

InitWriters ==
    /\ LimiterIdle
    /\ Seeded
    /\ articles = {[SeedArticle(1, "a", "x") EXCEPT !.title = "b", !.slug = "b"]}
    /\ references = {}
    /\ articleVersions =
          {SeedVersion(SeedArticle(1, "a", "x")),
           [SeedVersion(SeedArticle(1, "b", "x")) EXCEPT !.id = 2, !.versionNumber = 2]}
    /\ articleViews = {}
    /\ articleBounces = {}
    /\ socialShares = {}
    /\ dailyArticleStats = {}
    /\ serial = [articles |-> 2, references |-> 1, versions |-> 3, views |-> 1,
                 bounces |-> 1, shares |-> 1, stats |-> 1, topics |-> 1]
    /\ clock = 1
    /\ req = [p \in Procs |-> IdleReq]
    /\ nreq = 0
    /\ topics = {}
    /\ session = "admin"

WriterCreateBodies ==
    {[NoBody EXCEPT !.title = "d", !.content = "z",
                    !.hasReferences = TRUE, !.references = <<"ok">>]}

WriterUpdateBodies ==
    {[NoBody EXCEPT !.title = "c"],
     [NoBody EXCEPT !.content = "w", !.hasReferences = TRUE, !.references = <<"ok">>]}

NextWriters ==
    \E p \in Procs :
       \/ \E b \in WriterCreateBodies : CreateArticle(p, b)
       \/ \E b \in WriterUpdateBodies : UpdateStart(p, 1, b)
       \/ \E v \in {1, 2} : RestoreStart(p, 1, v)
       \/ CreateReferences(p)
       \/ CreateInitialVersion(p)
       \/ UpdateArticleStep(p)
       \/ UpdateGetVersions(p)
       \/ UpdateCreateVersion(p)
       \/ UpdateReferences(p)
       \/ RestoreGetVersion(p)
       \/ RestoreUpdateArticle(p)
       \/ RestoreGetVersions(p)
       \/ RestoreCreateVersion(p)

SpecWriters == InitWriters /\ [][NextWriters]_vars

----------------------------------------------------------------------------
(* Deletion of article 1 overlapping with recordings, an update and a restore
   on it *)

InitIntegrity == InitStore /\ session = "admin"

NextIntegrity ==
    \E p \in Procs :
       \/ DeleteStart(p, 1)
       \/ UpdateStart(p, 1, [NoBody EXCEPT !.title = "c", !.hasReferences = TRUE,
                                           !.references = <<"ok">>])
       \/ RestoreStart(p, 1, 1)
       \/ RecordViewInsert(p, 1, MaxRequests)
       \/ RecordBounceInsert(p, 1, 10, MaxRequests)
       \/ RecordShareInsert(p, 1, MaxRequests)
       \/ DeleteArticleStep(p)
       \/ UpdateArticleStep(p)
       \/ UpdateGetVersions(p)
       \/ UpdateCreateVersion(p)
       \/ UpdateReferences(p)
       \/ RestoreGetVersion(p)
       \/ RestoreUpdateArticle(p)
       \/ RestoreGetVersions(p)
       \/ RestoreCreateVersion(p)
       \/ RecordSteps(p)

SpecIntegrity == InitIntegrity /\ [][NextIntegrity]_vars

----------------------------------------------------------------------------
(* The rate limiter (RateLimiter, mounted by registerRoutes) *)

\* new RateLimiter(maxRequests, timeWindowInSeconds): the limits of the
\* instance under study, scaled down from (100, 60)
LimiterMax == 2
WindowSeconds == 1

\* the requests and the time span explored
MaxCalls == 4
MaxNow == 5

\* the granularity of Date.now() in the model, in milliseconds
TickMs == 500

\* this.timeWindow = timeWindowInSeconds * 1000
timeWindow == WindowSeconds * 1000

\* middleware() is mounted without arguments: customMaxRequests || this.maxRequests
maxRequests(customMaxRequests) ==
    IF TruthyNum(customMaxRequests) THEN customMaxRequests ELSE LimiterMax

\* Math.ceil(num / den) for den > 0
MathCeil(num, den) == -((-num) \div den)

\* req.ip || req.socket.remoteAddress || 'unknown', then `${ip}:${req.path}`
KeyOf(ip, remoteAddress, path) ==
    (IF Truthy(ip) THEN ip
     ELSE IF Truthy(remoteAddress) THEN remoteAddress
     ELSE "unknown") \o ":" \o path

\* this.requests.get(key) || { count: 0, resetTime: now + timeWindow }
requestData(key) ==
    IF key \in DOMAIN requests THEN requests[key]
    ELSE [count |-> 0, resetTime |-> now + timeWindow]

\* if (now > requestData.resetTime): the window has passed
Expired(data) == now > data.resetTime

\* this.requests.set(key, requestData)
SetRequest(key, data) ==
    [k \in DOMAIN requests \cup {key} |-> IF k = key THEN data ELSE requests[k]]

\* faulty variant of Exceeded: one request too many is let through
ExceededLate(data) == data.count > maxRequests(Unset) + 1

\* if (requestData.count > maxRequests): the request is answered 429
Exceeded(data) == data.count > maxRequests(Unset)

\* the middleware, for one incoming request; the answer is logged in outcomes
Middleware(ip, remoteAddress, path) ==
    /\ Cardinality(outcomes) < MaxCalls
    /\ LET key == KeyOf(ip, remoteAddress, path)
           found == requestData(key)
           fresh == IF Expired(found)
                    THEN [count |-> 0, resetTime |-> now + timeWindow]
                    ELSE found
           data == [fresh EXCEPT !.count = @ + 1]
       IN /\ requests' = SetRequest(key, data)
          /\ outcomes' = outcomes \cup
                {[n |-> Cardinality(outcomes) + 1, key |-> key, at |-> now,
                  known |-> key \in DOMAIN requests,
                  resetBefore |-> found.resetTime,
                  resetTime |-> data.resetTime,
                  status |-> IF Exceeded(data) THEN 429 ELSE Unset,
                  retryAfter |-> IF Exceeded(data)
                                 THEN MathCeil(data.resetTime - now, 1000)
                                 ELSE Unset]}
    /\ UNCHANGED <<now, seedVars, topics, session, contentVars, engagementVars,
                   serial, clock, req, nreq>>

\* cleanup(), run by setInterval: entries whose window has passed are deleted
Cleanup ==
    /\ requests' = [k \in {x \in DOMAIN requests : ~Expired(requests[x])} |-> requests[k]]
    /\ UNCHANGED <<now, outcomes, seedVars, topics, session, contentVars,
                   engagementVars, serial, clock, req, nreq>>

\* time passes
Advance ==
    /\ now < MaxNow * TickMs
    /\ now' = now + TickMs
    /\ UNCHANGED <<requests, outcomes, seedVars, topics, session, contentVars,
                   engagementVars, serial, clock, req, nreq>>

Addresses == {"h1", Absent}
Paths == {"/topics", "/articles"}

NextLimiter ==
    \/ \E ip \in Addresses, path \in Paths : Middleware(ip, Absent, path)
    \/ Cleanup
    \/ Advance

SpecLimiter == Init /\ [][NextLimiter]_vars

----------------------------------------------------------------------------
(* seedDatabase(), awaited by registerRoutes at every process start *)

\* the process starts explored
MaxRuns == 3

\* const topicsData: two of the five entries
topicsData ==
    <<[name |-> "Salah", slug |-> "salah"], [name |-> "Sawm", slug |-> "sawm"]>>

\* const articlesData, each entry with its references
articlesData ==
    <<[title |-> "a", slug |-> "a", description |-> "d", content |-> "x",
       topicId |-> 1, status |-> "published", references |-> <<"ok", "ok">>],
      [title |-> "b", slug |-> "b", description |-> "e", content |-> "y",
       topicId |-> 1, status |-> "published", references |-> <<"ok">>]>>

\* the awaits of seedDatabase at which the run can be cut short
SeedRunning == seed.pc \notin {"done", "stopped"}

\* const adminExists = await storage.getUserByUsername('admin'); the else
\* branch logs 'skipping database seeding' and returns
SeedCheck ==
    /\ seed.pc = "check"
    /\ seed' = [seed EXCEPT !.pc = IF "admin" \in users THEN "done" ELSE "createUser"]
    /\ UNCHANGED <<users, limiterVars, topics, session, contentVars, engagementVars,
                   serial, clock, req, nreq>>

\* const admin = await storage.createUser(adminUser)
SeedCreateUser ==
    /\ seed.pc = "createUser"
    /\ users' = users \cup {"admin"}
    /\ seed' = [seed EXCEPT !.pc = "topics", !.i = 1, !.adminId = AdminId]
    /\ UNCHANGED <<limiterVars, topics, session, contentVars, engagementVars,
                   serial, clock, req, nreq>>

\* for (const topic of topicsData) await storage.createTopic(topic); a
\* duplicate name or slug throws into the catch, which logs and returns
SeedCreateTopic ==
    /\ seed.pc = "topics"
    /\ serial' = [serial EXCEPT !.topics = @ + 1]
    /\ LET row == NewTopicRow(topicsData[seed.i])
       IN IF TopicFree(row)
          THEN /\ topics' = topics \cup {row}
               /\ seed' = IF seed.i < Len(topicsData)
                          THEN [seed EXCEPT !.i = @ + 1]
                          ELSE [seed EXCEPT !.pc = "getTopics"]
          ELSE /\ topics' = topics
               /\ seed' = [seed EXCEPT !.pc = "done"]
    /\ UNCHANGED <<users, limiterVars, session, contentVars, engagementVars,
                   clock, req, nreq>>

\* const topics = await storage.getTopics(); topicMap sends each name to its
\* id, so the topicId of an article stays what articlesData says
SeedGetTopics ==
    /\ seed.pc = "getTopics"
    /\ seed' = [seed EXCEPT !.pc = "article", !.j = 1]
    /\ UNCHANGED <<users, limiterVars, topics, session, contentVars, engagementVars,
                   serial, clock, req, nreq>>

\* the row of storage.createArticle({...article, authorId: admin.id, ..})
SeedArticleRow(article) ==
    [id |-> serial.articles, title |-> article.title, slug |-> article.slug,
     description |-> article.description, content |-> article.content,
     topicId |-> article.topicId, authorId |-> seed.adminId,
     status |-> article.status, updatedAt |-> clock]

\* const newArticle = await storage.createArticle(articleData)
SeedCreateArticle ==
    /\ seed.pc = "article"
    /\ serial' = [serial EXCEPT !.articles = @ + 1]
    /\ LET row == SeedArticleRow(articlesData[seed.j])
       IN IF SlugFree(row.slug, row.id) /\ TopicExists(row.topicId)
          THEN /\ articles' = articles \cup {row}
               /\ seed' = [seed EXCEPT !.pc = "references", !.k = 1, !.newArticle = row]
          ELSE /\ articles' = articles
               /\ seed' = [seed EXCEPT !.pc = "done"]
    /\ UNCHANGED <<users, limiterVars, topics, session, references, articleVersions,
                   engagementVars, clock, req, nreq>>

\* for (const ref of references) await storage.createReference({...ref, articleId})
SeedCreateReference ==
    /\ seed.pc = "references"
    /\ serial' = [serial EXCEPT !.references = @ + 1]
    /\ references' = references \cup
                        {[id |-> serial.references, articleId |-> seed.newArticle.id]}
    /\ seed' = IF seed.k < Len(articlesData[seed.j].references)
               THEN [seed EXCEPT !.k = @ + 1]
               ELSE [seed EXCEPT !.pc = "version"]
    /\ UNCHANGED <<users, limiterVars, topics, session, articles, articleVersions,
                   engagementVars, clock, req, nreq>>

\* await storage.createArticleVersion({.., versionNumber: 1, ..}); after the
\* last article the run logs 'completed successfully' and returns
SeedCreateVersion ==
    /\ seed.pc = "version"
    /\ serial' = [serial EXCEPT !.versions = @ + 1]
    /\ articleVersions' = createArticleVersion(
            NewVersionRow(seed.newArticle.id, seed.newArticle.title,
                          IF Truthy(seed.newArticle.description)
                          THEN seed.newArticle.description ELSE "",
                          seed.newArticle.content, 1))
    /\ seed' = IF seed.j < Len(articlesData)
               THEN [seed EXCEPT !.pc = "article", !.j = @ + 1]
               ELSE [seed EXCEPT !.pc = "done"]
    /\ UNCHANGED <<users, limiterVars, topics, session, articles, references,
                   engagementVars, clock, req, nreq>>

\* the process ends between two statements of the run
SeedStop ==
    /\ SeedRunning
    /\ seed' = [seed EXCEPT !.pc = "stopped"]
    /\ UNCHANGED <<users, limiterVars, topics, session, contentVars, engagementVars,
                   serial, clock, req, nreq>>

\* the process starts again: registerRoutes awaits seedDatabase()
SeedStart ==
    /\ ~SeedRunning
    /\ seed.run < MaxRuns
    /\ seed' = [NoSeed EXCEPT !.pc = "check", !.run = seed.run + 1]
    /\ UNCHANGED <<users, limiterVars, topics, session, contentVars, engagementVars,
                   serial, clock, req, nreq>>

\* an empty database and the first process start
InitSeed ==
    /\ LimiterIdle
    /\ users = {}
    /\ seed = [NoSeed EXCEPT !.pc = "check", !.run = 1]
    /\ articles = {}
    /\ references = {}
    /\ articleVersions = {}
    /\ articleViews = {}
    /\ articleBounces = {}
    /\ socialShares = {}
    /\ dailyArticleStats = {}
    /\ serial = [articles |-> 1, references |-> 1, versions |-> 1, views |-> 1,
                 bounces |-> 1, shares |-> 1, stats |-> 1, topics |-> 1]
    /\ clock = 1
    /\ req = [p \in Procs |-> IdleReq]
    /\ nreq = 0
    /\ topics = {}
    /\ session = "none"

NextSeed ==
    \/ SeedCheck
    \/ SeedCreateUser
    \/ SeedCreateTopic
    \/ SeedGetTopics
    \/ SeedCreateArticle
    \/ SeedCreateReference
    \/ SeedCreateVersion
    \/ SeedStop
    \/ SeedStart
    \/ Tick

SpecSeed == InitSeed /\ [][NextSeed]_vars

----------------------------------------------------------------------------
(* Properties of the content store *)

VersionsOf(id) == {v \in articleVersions : v.articleId = id}

\* slot p finishes a request of kind op with this step
Finishes(p, op) ==
    /\ req[p].op = op /\ req[p].pc \notin {"idle", "done"}
    /\ req'[p].op = op /\ req'[p].pc = "done"

\* C1: for every article, the versions have pairwise distinct version numbers,
\* the numbers grow in creation order and the smallest one is 1, whatever
\* create / update / version-create / restore requests ran or overlapped.
C1_VersionMonotonicity ==
    \A a \in articles :
        /\ \A v, w \in VersionsOf(a.id) :
              v.id < w.id => v.versionNumber < w.versionNumber
        /\ VersionsOf(a.id) # {} => \E v \in VersionsOf(a.id) : v.versionNumber = 1

\* C4: the step that completes a successful restore of article A to version N
\* adds exactly one version row; its number is greater than every number A had
\* before, its title / description / content are those of version N, and all
\* rows that existed before (version N included) are still there unchanged.
C4_RestoreForwardOnly ==
    [][\A p \in Procs :
        (Finishes(p, "restore") /\ req'[p].status = 200) =>
            LET nv == req'[p].created
                target == req[p].version
            IN /\ nv \notin articleVersions
               /\ articleVersions' = articleVersions \cup {nv}
               /\ \A v \in VersionsOf(req[p].articleId) : nv.versionNumber > v.versionNumber
               /\ nv.title = target.title
               /\ nv.description = target.description
               /\ nv.content = target.content
               /\ target \in articleVersions'
               /\ Cardinality(articleVersions') > Cardinality(articleVersions)]_vars

\* C7: once a creation request that inserted an article has ended, the article
\* (while it exists) has a version numbered 1 carrying the title, description
\* and content the article was created with.
C7_CreationCreatesVersionOne ==
    \A p \in Procs :
        (req[p].op = "create" /\ req[p].pc = "done" /\ ArticleExists(req[p].articleId)) =>
            \E v \in VersionsOf(req[p].articleId) :
                /\ v.versionNumber = 1
                /\ v.title = req[p].article.title
                /\ v.description = req[p].article.description
                /\ v.content = req[p].article.content

\* C8: an accepted update has added a version exactly when its write changed
\* the article's title or content, and the version an update adds is numbered
\* one more than the latest version the article has at that moment.
C8_UpdateVersionsExactlyOnChange ==
    [][\A p \in Procs :
        /\ (Finishes(p, "update") /\ req'[p].status = 200) =>
               (req'[p].changed <=> req'[p].created # NoVersion)
        /\ (req[p].op = "update" /\ req[p].created = NoVersion
                /\ req'[p].op = "update" /\ req'[p].created # NoVersion) =>
               req'[p].created.versionNumber = latestVersionNumber(req[p].articleId) + 1]_vars

\* C9: after a successful restore, as long as no other request has written the
\* article since the restore wrote it, the article's title, description and
\* content are those of the target version.
C9_RestoreSetsArticle ==
    \A p \in Procs :
        (req[p].op = "restore" /\ req[p].pc = "done" /\ req[p].status = 200
            /\ ~req[p].interfered) =>
            LET a == getArticle(req[p].articleId)
            IN /\ a # NoArticle
               /\ a.title = req[p].version.title
               /\ a.description = req[p].version.description
               /\ a.content = req[p].version.content

\* a restore that really rewound the article: it succeeded undisturbed and the
\* article it found differed from the target version
C9_Witness ==
    \E p \in Procs :
        /\ req[p].op = "restore" /\ req[p].pc = "done" /\ req[p].status = 200
        /\ ~req[p].interfered
        /\ req[p].article.title # req[p].version.title
        /\ req[p].article.content # req[p].version.content

\* slot p accepts a new request with this step
Starts(p) ==
    /\ Free(p) /\ nreq' = nreq + 1
    /\ \A q \in Procs \ {p} : req'[q] = req[q]

\* C10: a restore or a single-version fetch whose article id does not resolve,
\* whose version id does not resolve, or whose version belongs to another
\* article ends with status 404 in the step that finds it out, and no step of
\* such a request changes an article or a version row.
C10_NotFound ==
    [][\A p \in Procs :
        /\ (Starts(p) /\ req'[p].op \in {"restore", "fetch"}) =>
              /\ articles' = articles /\ articleVersions' = articleVersions
              /\ getArticle(req'[p].articleId) = NoArticle =>
                    (req'[p].pc = "done" /\ req'[p].status = 404)
        /\ (req[p].op \in {"restore", "fetch"} /\ req[p].pc = "getVersion"
              /\ req'[p].pc # "getVersion"
              /\ LET v == getArticleVersion(req[p].versionId)
                 IN v = NoVersion \/ v.articleId # req[p].articleId) =>
              /\ req'[p].pc = "done" /\ req'[p].status = 404
              /\ articles' = articles /\ articleVersions' = articleVersions]_vars

\* a restore refused because the version exists but belongs to another article
C10_Witness ==
    \E p \in Procs :
        /\ req[p].op = "restore" /\ req[p].pc = "done" /\ req[p].status = 404
        /\ req[p].article # NoArticle
        /\ getArticleVersion(req[p].versionId) # NoVersion
        /\ getArticleVersion(req[p].versionId).articleId # req[p].articleId

----------------------------------------------------------------------------
(* Properties of the engagement recorder *)

Quiet == \A p \in Procs : Free(p)

ViewsOn(articleId, day) == {v \in articleViews : v.articleId = articleId /\ v.day = day}
BouncesOn(articleId, day) == {b \in articleBounces : b.articleId = articleId /\ b.day = day}
SharesOn(articleId, day) == {x \in socialShares : x.articleId = articleId /\ x.day = day}

\* C2: when only views have been recorded, all on the same day, and every
\* recordArticleView call has completed, the Daily Article Stat row of each
\* article that was viewed exists and counts exactly the views recorded for it,
\* however the calls overlapped.
C2_NoLostViews ==
    (Quiet /\ clock = 1 /\ articleBounces = {} /\ socialShares = {}) =>
        \A id \in ArticleIds :
            ViewsOn(id, 1) # {} =>
                /\ StatsFor(id, 1) # {}
                /\ \A s \in StatsFor(id, 1) : s.views = Cardinality(ViewsOn(id, 1))

\* C3: at most one Daily Article Stat row exists for an article and a date.
C3_OneRowPerArticleDay ==
    \A s, t \in dailyArticleStats :
        (s.articleId = t.articleId /\ s.date = t.date) => s = t

\* the bounce log is exactly these samples, recorded in this order on article 1
\* on day 1
RecordedBounces(samples) ==
    articleBounces = {[id |-> i, articleId |-> 1, timeOnPage |-> samples[i], day |-> 1]
                      : i \in 1..Len(samples)}

\* C5: bounces recorded one after the other on one day with samples 10, 20, 30
\* leave averageTimeOnPage 20 and bounces 3; a 4th bounce with sample 0 then
\* leaves averageTimeOnPage 15 and bounces 4.
C5_RunningAverage ==
    (Quiet /\ clock = 1) =>
        /\ RecordedBounces(<<10, 20, 30>>) =>
              /\ StatsFor(1, 1) # {}
              /\ \A s \in StatsFor(1, 1) : s.averageTimeOnPage = 20 /\ s.bounces = 3
        /\ RecordedBounces(<<10, 20, 30, 0>>) =>
              /\ StatsFor(1, 1) # {}
              /\ \A s \in StatsFor(1, 1) : s.averageTimeOnPage = 15 /\ s.bounces = 4

RECURSIVE SumTimeOnPage(_)
SumTimeOnPage(rows) ==
    IF rows = {} THEN 0
    ELSE LET b == CHOOSE x \in rows : TRUE
         IN b.timeOnPage + SumTimeOnPage(rows \ {b})

\* the Daily Article Stat recomputed from the log of one article-day
Replay(articleId, day) ==
    [views |-> Cardinality(ViewsOn(articleId, day)),
     shares |-> Cardinality(SharesOn(articleId, day)),
     bounces |-> Cardinality(BouncesOn(articleId, day)),
     averageTimeOnPage |->
        IF BouncesOn(articleId, day) = {} THEN 0
        ELSE MathRound(SumTimeOnPage(BouncesOn(articleId, day)),
                       Cardinality(BouncesOn(articleId, day)))]

\* C6: with every recording completed (all of them within one day), each
\* article-day that has log rows has an aggregate row, and the counters and the
\* average of that row are those recomputed from the log.
C6_ReplayEquivalence ==
    (Quiet /\ clock = 1) =>
        \A id \in ArticleIds :
            (ViewsOn(id, 1) \cup BouncesOn(id, 1) \cup SharesOn(id, 1) # {}) =>
                /\ StatsFor(id, 1) # {}
                /\ \A s \in StatsFor(id, 1) :
                      /\ s.views = Replay(id, 1).views
                      /\ s.shares = Replay(id, 1).shares
                      /\ s.bounces = Replay(id, 1).bounces
                      /\ s.averageTimeOnPage = Replay(id, 1).averageTimeOnPage
----------------------------------------------------------------------------
(* Properties of the whole store *)

\* C11: a version row, once written, is never changed and never removed by
\* any operation (article update, version creation, restore, engagement
\* recording, topic deletion, ...) except the deletion of its own article.
C11_VersionsImmutable ==
    [][\A v \in articleVersions :
          \/ v \in articleVersions'
          \/ /\ \E a \in articles : a.id = v.articleId
             /\ \A a \in articles' : a.id # v.articleId]_vars

\* a restore has answered 200 and version 1 of the article is still stored
\* beside the row the restore inserted
C11_Witness ==
    /\ req["p1"].op = "restore" /\ req["p1"].pc = "done" /\ req["p1"].status = 200
    /\ req["p1"].created \in articleVersions
    /\ \E v \in articleVersions :
          /\ v.articleId = req["p1"].articleId
          /\ v.versionNumber = 1
          /\ v # req["p1"].created

\* the article with this id is stored before the step and gone after it
Deleted(id) ==
    /\ \E a \in articles : a.id = id
    /\ \A a \in articles' : a.id # id

\* C12: the step that deletes an article removes every reference, version,
\* view, bounce, share and daily stat row of that article, and no row of any
\* other article.
C12_DeleteCascades ==
    [][\A id \in {a.id : a \in articles} :
          Deleted(id) =>
             /\ articles' = {a \in articles : a.id # id}
             /\ references' = {x \in references : x.articleId # id}
             /\ articleVersions' = {x \in articleVersions : x.articleId # id}
             /\ articleViews' = {x \in articleViews : x.articleId # id}
             /\ articleBounces' = {x \in articleBounces : x.articleId # id}
             /\ socialShares' = {x \in socialShares : x.articleId # id}
             /\ dailyArticleStats' = {x \in dailyArticleStats : x.articleId # id}]_vars

\* article 1 was deleted after a view of it and a view of article 2 had been
\* recorded: its rows are gone, those of article 2 are still stored
C12_Witness ==
    /\ req["p1"].op = "delete" /\ req["p1"].pc = "done" /\ req["p1"].status = 200
    /\ req["p1"].articleId = 1
    /\ serial.views = 3 /\ serial.stats = 3
    /\ {x.articleId : x \in articleViews} = {2}
    /\ {x.articleId : x \in dailyArticleStats} = {2}
    /\ {x.articleId : x \in articleVersions} = {2}
    /\ {x.articleId : x \in references} = {2}

\* the topic with this id is stored before the step and gone after it
TopicDeleted(id) ==
    /\ \E t \in topics : t.id = id
    /\ \A t \in topics' : t.id # id

\* C13: the step that deletes a topic leaves every article stored, clears
\* topicId on exactly the articles that referenced the topic, and changes no
\* other column, no other topic and no other table.
C13_TopicDeleteSetsNull ==
    [][\A id \in {t.id : t \in topics} :
          TopicDeleted(id) =>
             /\ topics' = {t \in topics : t.id # id}
             /\ {a.id : a \in articles'} = {a.id : a \in articles}
             /\ \A a \in articles :
                   IF a.topicId = id
                   THEN [a EXCEPT !.topicId = NoTopic] \in articles'
                   ELSE a \in articles'
             /\ UNCHANGED <<references, articleVersions, engagementVars>>]_vars

\* topic 1 was deleted: article 1, which referenced it, is stored without a
\* topic and article 2 still references topic 2
C13_Witness ==
    /\ req["p1"].op = "topicDelete" /\ req["p1"].pc = "done" /\ req["p1"].status = 200
    /\ req["p1"].topicId = 1
    /\ \A t \in topics : t.id # 1
    /\ \E a \in articles : a.id = 1 /\ a.topicId = NoTopic
    /\ \E a \in articles : a.id = 2 /\ a.topicId = 2

\* a recording call of kind op passes its insert statement with this step
Logs(op) ==
    \E p \in Procs :
       /\ Free(p)
       /\ req'[p].op = op /\ req'[p].pc = "selectStat"

\* the rows of log table `log` whose article is not deleted by this step stay
Kept(log) == \A x \in log : x \in log' \/ Deleted(x.articleId)

\* C14: the engagement log is append-only.  A recordArticleView /
\* recordArticleBounce / recordSocialShare call adds exactly one row to its own
\* log table and none to the other two, no other step adds a log row, and a
\* stored log row is changed or removed only by the deletion of its article.
C14_LogAppendOnly ==
    [][/\ Kept(articleViews) /\ Kept(articleBounces) /\ Kept(socialShares)
       /\ Cardinality(articleViews' \ articleViews) = IF Logs("view") THEN 1 ELSE 0
       /\ Cardinality(articleBounces' \ articleBounces) = IF Logs("bounce") THEN 1 ELSE 0
       /\ Cardinality(socialShares' \ socialShares) = IF Logs("share") THEN 1 ELSE 0]_vars

\* one view, one bounce and one share were recorded and answered 201: each
\* log table holds exactly its own row
C14_Witness ==
    /\ req["p1"].op = "share" /\ req["p1"].pc = "done" /\ req["p1"].status = 201
    /\ serial.views = 2 /\ serial.bounces = 2 /\ serial.shares = 2
    /\ Cardinality(articleViews) = 1
    /\ Cardinality(articleBounces) = 1
    /\ Cardinality(socialShares) = 1

\* C15: no article update and no restore is answered as a success (200) after
\* it changed the stored title or content without inserting a version row; a
\* version insert that fails after the article write answers a failure.
C15_NoSilentPartialChange ==
    \A p \in Procs :
       (req[p].pc = "done" /\ req[p].status = 200) =>
          /\ req[p].op = "restore" => req[p].created # NoVersion
          /\ (req[p].op = "update" /\ req[p].changed) => req[p].created # NoVersion

\* slot p is answered with this step after its write violated a unique
\* constraint
Conflicts(p) ==
    /\ req'[p].pc = "done" /\ req'[p].conflict
    /\ req[p].pc # "done" \/ nreq' = nreq + 1

\* C16: a topic or article create or update whose slug (or topic name)
\* duplicates that of another row is answered 409 Conflict, not 500, and
\* leaves the stored topics and articles as they were.
C16_DuplicateIsConflict ==
    [][\A p \in Procs :
          Conflicts(p) =>
             /\ req'[p].status = 409
             /\ UNCHANGED <<topics, articles>>]_vars

MutationRoutes ==
    {"create", "update", "delete", "createVersion", "restore",
     "topicCreate", "topicUpdate", "topicDelete"}

RecordingRoutes == {"view", "bounce", "share"}

\* C20: a request that arrives without a principal or with a principal who is
\* not the admin changes no topic, article, reference or version: each of the
\* create / update / delete / version-create / restore routes answers 401 or
\* 403 before any storage call.  The view, bounce and share recordings are not
\* gated: for an anonymous caller they insert their log row.
C20_NonAdminChangesNothing ==
    [][\A p \in Procs :
          (Starts(p) /\ session # "admin") =>
             /\ UNCHANGED <<topics, articles, references, articleVersions>>
             /\ req'[p].op \in MutationRoutes =>
                   (req'[p].pc = "done" /\ req'[p].status \in {401, 403})
             /\ req'[p].op \in RecordingRoutes =>
                   /\ req'[p].status \notin {401, 403}
                   /\ ArticleExists(req'[p].articleId) => req'[p].pc = "selectStat"]_vars

\* an anonymous caller, whose view has been recorded, asked for the deletion
\* of article 1 and was answered 401; the article is still stored
C20_Witness ==
    /\ session = "none"
    /\ req["p1"].op = "delete" /\ req["p1"].pc = "done" /\ req["p1"].status = 401
    /\ ArticleExists(1)
    /\ articleViews # {}

----------------------------------------------------------------------------
(* Properties of the statistics queries *)

InRange(date, startDate, endDate) ==
    /\ startDate = NoDate \/ date >= startDate
    /\ endDate = NoDate \/ date <= endDate

ViewsInRange(articleId, startDate, endDate) ==
    {v \in articleViews : v.articleId = articleId /\ InRange(v.day, startDate, endDate)}

\* C17: the answer of the top-articles query holds at most 5 articles, in
\* descending order of views, and the views of each are the number of its
\* view-log rows inside [startDate, endDate]: a view outside the range counts
\* for nothing.
C17_TopArticlesInRange ==
    \A p \in Procs :
       (req[p].op = "topArticles" /\ req[p].pc = "done") =>
          LET rows == req[p].result
          IN /\ Len(rows) <= TopLimit
             /\ \A i, j \in 1..Len(rows) : i < j => rows[i].views >= rows[j].views
             /\ \A i \in 1..Len(rows) :
                   rows[i].views = Cardinality(ViewsInRange(rows[i].id, req[p].startDate,
                                                            req[p].endDate))

\* C18: the answer of the article statistics query holds exactly the daily
\* stat rows of the given article whose date lies within the supplied bounds
\* (both inclusive), each once, in ascending order of date.
C18_ArticleStatsFiltered ==
    \A p \in Procs :
       (req[p].op = "articleStats" /\ req[p].pc = "done") =>
          LET rows == req[p].result
          IN /\ {rows[i] : i \in 1..Len(rows)} =
                   {row \in dailyArticleStats :
                       /\ row.articleId = req[p].articleId
                       /\ InRange(row.date, req[p].startDate, req[p].endDate)}
             /\ \A i, j \in 1..Len(rows) : i < j => rows[i] # rows[j]
             /\ \A i, j \in 1..Len(rows) : i < j => rows[i].date <= rows[j].date

----------------------------------------------------------------------------
(* Properties of the article listing *)

\* the articles that satisfy every filter the request supplies
Matching(options) ==
    {a \in articles :
        /\ TruthyNum(options.topicId) => a.topicId = options.topicId
        /\ Truthy(options.status) => a.status = options.status
        /\ TruthyNum(options.authorId) => a.authorId = options.authorId
        /\ Truthy(options.search) =>
              \E text \in {a.title, a.description, a.content} : ILike(text, options.search)}

----------------------------------------------------------------------------
(* Properties of the daily aggregate *)

\* C21: in every reachable state, also between the log insert and the
\* aggregate write of a recording in flight, each counter of a daily stat row
\* is at most the number of log rows of its kind recorded for the row's
\* article on the row's date.
C21_AggregateNotAhead ==
    \A s \in dailyArticleStats :
       /\ s.views <= Cardinality(ViewsOn(s.articleId, s.date))
       /\ s.bounces <= Cardinality(BouncesOn(s.articleId, s.date))
       /\ s.shares <= Cardinality(SharesOn(s.articleId, s.date))

\* slot p performs the aggregate write of a recording of kind op
Writes(p, op) ==
    /\ req[p].op = op /\ req[p].pc = "writeStat"
    /\ req'[p].pc = "done"

\* the counter a recording of kind op counts in
Counter(op) ==
    CASE op = "view" -> "views"
      [] op = "bounce" -> "bounces"
      [] op = "share" -> "shares"

\* the timeOnPage a bounce carries, 0 when it carries none
Sample(p) == IF req[p].timeOnPage = NoSample THEN 0 ELSE req[p].timeOnPage

C23_AverageRecomputed ==
    [][\A p \in Procs :
          (Writes(p, "bounce") /\ req[p].existingStat \in dailyArticleStats) =>
             LET old == req[p].existingStat
             IN \E new \in dailyArticleStats' :
                   /\ new.id = old.id
                   /\ new.averageTimeOnPage =
                         MathRound(old.averageTimeOnPage * old.bounces + Sample(p),
                                   old.bounces + 1)]_vars

\* C25: a view written to an existing row leaves its shares, bounces and
\* averageTimeOnPage as they are, a share leaves views, bounces and
\* averageTimeOnPage, a bounce leaves views and shares, also when recordings
\* of different kinds overlap on the article-day; no aggregate write touches
\* a row of another article-day.
C25_AggregateFrame ==
    [][\A p \in Procs, op \in RecordingRoutes :
          (Writes(p, op) /\ req[p].existingStat # NoStat) =>
             \A old \in dailyArticleStats :
                IF old.id = req[p].existingStat.id
                THEN \E new \in dailyArticleStats' :
                        /\ new.id = old.id
                        /\ \A k \in RecordingRoutes \ {op} :
                              new[Counter(k)] = old[Counter(k)]
                        /\ op # "bounce" => new.averageTimeOnPage = old.averageTimeOnPage
                ELSE old \in dailyArticleStats']_vars

\* a view and a bounce read the same row and both wrote it: the row counts
\* both
C25_Witness ==
    /\ \A p \in Procs : req[p].pc = "done" /\ req[p].status = 201
    /\ {req[p].op : p \in Procs} = {"view", "bounce"}
    /\ req["p1"].existingStat = req["p2"].existingStat
    /\ req["p1"].existingStat # NoStat
    /\ \E s \in dailyArticleStats :
          /\ s.id = req["p1"].existingStat.id
          /\ s.views = req["p1"].existingStat.views + 1
          /\ s.bounces = req["p1"].existingStat.bounces + 1

\* C27: no write to a daily stat row lowers its views, shares or bounces,
\* however the recordings on the article-day overlap.
C27_CountersNeverDecrease ==
    [][\A old \in dailyArticleStats, new \in dailyArticleStats' :
          new.id = old.id =>
             /\ new.views >= old.views
             /\ new.shares >= old.shares
             /\ new.bounces >= old.bounces]_vars

----------------------------------------------------------------------------
(* Properties of overlapping writers *)

\* no request on the article with this id is between its first and its last
\* statement
Settled(id) == \A p \in Procs : req[p].articleId = id => Free(p)

\* C26: whenever no create, update or restore request is in progress on an
\* article, the article has versions and its title and content are those of
\* every version with the highest versionNumber, however the requests
\* overlapped.
C26_ArticleMatchesLatestVersion ==
    \A a \in articles :
       Settled(a.id) =>
          /\ VersionsOf(a.id) # {}
          /\ \A v \in VersionsOf(a.id) :
                v.versionNumber = latestVersionNumber(a.id) =>
                   (v.title = a.title /\ v.content = a.content)

\* C28: in every reachable state every reference, version, view, bounce,
\* share and daily stat row belongs to a stored article, also when the
\* deletion of the article falls between the statements of a recording, an
\* update or a restore on it: that request fails and leaves no orphan.
C28_NoOrphans ==
    \A x \in references \cup articleVersions \cup articleViews \cup articleBounces
             \cup socialShares \cup dailyArticleStats :
       \E a \in articles : a.id = x.articleId

\* article 1 was deleted between the log insert and the aggregate write of a
\* view, which was answered 500, and nothing of article 1 is stored
C28_Witness ==
    \E p, q \in Procs :
       /\ req[p].op = "view" /\ req[p].pc = "done" /\ req[p].status = 500
       /\ req[p].existingStat = NoStat /\ req[p].today # 0
       /\ req[q].op = "delete" /\ req[q].pc = "done" /\ req[q].status = 200
       /\ \A a \in articles : a.id # 1

----------------------------------------------------------------------------
(* Properties of rejected requests *)

\* C29: an article create or update that is answered 400 (validation error)
\* has written nothing: the create inserted no article row, the update changed
\* neither title nor content and inserted no version row.
C29_RejectedWritesNothing ==
    \A p \in Procs :
       (req[p].pc = "done" /\ req[p].status = 400) =>
          /\ req[p].op = "create" => req[p].article = NoArticle
          /\ req[p].op = "update" => (~req[p].changed /\ req[p].created = NoVersion)

----------------------------------------------------------------------------
(* Properties of the rate limiter *)

Admitted(key, window) ==
    {o \in outcomes : o.key = key /\ o.resetTime = window /\ o.status # 429}

\* what one step of the limiter must satisfy; positive says whether a 429
\* must carry a Retry-After above zero or merely a non-negative one that is
\* zero exactly when the request arrives at the window's resetTime
Limited(positive) ==
    /\ \A o \in outcomes' :
          Cardinality(Admitted(o.key, o.resetTime)') <= maxRequests(Unset)
    /\ \A o \in outcomes' \ outcomes :
          /\ o.status = 429 =>
                /\ Cardinality(Admitted(o.key, o.resetTime)') = maxRequests(Unset)
                /\ o.known /\ o.resetTime = o.resetBefore
                /\ IF positive THEN o.retryAfter > 0
                   ELSE /\ o.retryAfter >= 0
                        /\ o.retryAfter = 0 <=> o.at = o.resetTime
                /\ o.retryAfter * 1000 >= o.resetTime - o.at
          /\ (o.known /\ o.at > o.resetBefore) =>
                /\ o.status # 429
                /\ o.resetTime = o.at + timeWindow
                /\ requests'[o.key].count = 1

\* C30 as stated: per key and window at most maxRequests requests pass; every
\* further one is answered 429 with a positive Retry-After and leaves the
\* window's resetTime as it was; once resetTime has passed the count restarts
\* and the next request of the key is admitted
C30_RateLimiter == [][Limited(TRUE)]_vars

\* C30 amended: as above, but Retry-After is only non-negative; it is zero
\* exactly for a request arriving at the very millisecond of resetTime
C30_RateLimiterAmended == [][Limited(FALSE)]_vars

\* a key used up its window, was refused, and was admitted again after the
\* window's resetTime had passed
C30_Witness ==
    \E o, r, a \in outcomes :
        /\ o.key = r.key /\ r.key = a.key
        /\ o.status # 429 /\ r.status = 429 /\ a.status # 429
        /\ o.resetTime = r.resetTime
        /\ a.n > r.n /\ a.at > r.resetTime
----------------------------------------------------------------------------
(* Properties of the seed *)

\* the database holds exactly what one complete run of seedDatabase creates
SeedComplete ==
    /\ users = {"admin"}
    /\ {t.name : t \in topics} = {topicsData[i].name : i \in 1..Len(topicsData)}
    /\ {a.slug : a \in articles} = {articlesData[j].slug : j \in 1..Len(articlesData)}
    /\ \A j \in 1..Len(articlesData) :
          \E a \in articles :
             /\ a.slug = articlesData[j].slug
             /\ Cardinality({r \in references : r.articleId = a.id})
                   = Len(articlesData[j].references)
             /\ \E v \in articleVersions :
                   v.articleId = a.id /\ v.versionNumber = 1 /\ v.title = a.title

\* no seed row exists twice
SeedNoDuplicates ==
    /\ \A t1, t2 \in topics : t1.name = t2.name => t1 = t2
    /\ \A a1, a2 \in articles : a1.slug = a2.slug => a1 = a2
    /\ \A v1, v2 \in articleVersions :
          (v1.articleId = v2.articleId /\ v1.versionNumber = v2.versionNumber) => v1 = v2
    /\ \A j \in 1..Len(articlesData) : \A a \in articles :
          a.slug = articlesData[j].slug =>
             Cardinality({r \in references : r.articleId = a.id})
                <= Len(articlesData[j].references)

\* C24: seeding is idempotent: whenever a run of seedDatabase has returned,
\* a rerun after a run that stopped part-way included, the database holds
\* the users, topics, articles, references and versions of one complete run,
\* and at no time a seed row exists twice
C24_SeedIdempotent ==
    /\ SeedNoDuplicates
    /\ seed.pc = "done" => SeedComplete
============================================================================
